---- MODULE Spec2Model ----
(***************************************************************************)
(* Rate cache and update pipeline of valutatrade_hub/parser_service:       *)
(* RatesStorage (storage.py), the source clients (api_clients.py),         *)
(* RatesUpdater.run_update (updater.py), RatesScheduler (scheduler.py),    *)
(* is_rate_fresh of valutatrade_hub/core/utils.py, and the portfolio calls *)
(* of valutatrade_hub/core/usecases.py that trade on the snapshot.         *)
(*                                                                         *)
(* The specifications share the storage layer:                             *)
(*   Spec      one caller running run_update again and again, with every   *)
(*             outcome of the providers and of the file writes;            *)
(*   SpecStore one caller using RatesStorage directly;                     *)
(*   SpecConc  two writers (scheduler thread, manual refresh) whose        *)
(*             storage calls interleave file operation by file operation;  *)
(*   SpecSched one caller of start and stop and the loop threads, with     *)
(*             SpecSchedFair and SpecSchedTimed adding fair scheduling;    *)
(*   SpecLoad  one caller saving the snapshot and loading the files, over  *)
(*             files that may hold anything;                               *)
(*   SpecFresh is_rate_fresh applied to every kind of stored value;        *)
(*   SpecClient the two source clients applied to every kind of response;  *)
(*   SpecTrade one user depositing, buying and selling over any snapshot.  *)
(***************************************************************************)
EXTENDS Integers, Sequences, FiniteSets, TLC

VARIABLES
    ratesFs,        \* data/rates.json and data/rates.json.tmp
    histFs,         \* data/exchange_rates.json and its .tmp
    now,            \* the clock read by datetime.now(timezone.utc)
    pc,             \* where the caller of run_update stands
    sources,        \* run_update: the list of source names being processed
    idx,            \* run_update: position of the for loop in sources (from 1)
    rates,          \* run_update: the dict fetch_rates returned
    k,              \* run_update: position of the inner loop in rates.items()
    all_rates,      \* run_update: all_rates
    update_stats,   \* run_update: update_stats
    runs,           \* number of run_update calls made so far
    log,            \* history variable: what became of each source of this run
    startRates,     \* history variable: ratesFs when this run started
    startHist,      \* history variable: the records readable at the start
    appended,       \* history variable: records appended since the start
    calls,          \* SpecStore: number of storage calls made so far
    last,           \* SpecStore: the last storage call and how it ended
    wpc,            \* SpecConc: where each writer stands in its save call
    wcall,          \* SpecConc: the save call each writer is in
    wfd,            \* SpecConc: the file each writer's open descriptor is on
    seen,           \* SpecConc: what the reader found in the canonical files
    given,          \* SpecStore: the rates_data of the last save_current_rates
    loaded,         \* SpecLoad: the last load call and what it gave back
    stop_event,     \* RatesScheduler._stop_event: is the flag set
    scheduler_thread, \* RatesScheduler._scheduler_thread: a thread or None
    tpc,            \* where each thread stands in _scheduler_loop
    interval,       \* _scheduler_loop: interval_seconds of each thread
    timer,          \* seconds left of each thread's _stop_event.wait
    cpc,            \* where the caller of start and stop stands
    came,           \* history variable: what each loop did last
    cycle,          \* history variable: how each loop's last cycle ended
    done,           \* history variable: the last start or stop call
    stored,         \* SpecFresh: the updated_at value handed to is_rate_fresh
    ttl,            \* SpecFresh: the RATES_TTL_SECONDS setting
    clock,          \* SpecFresh: the instant datetime.now() reads
    answer,         \* SpecFresh: how the last is_rate_fresh call ended
    got,            \* SpecClient: the last fetch_rates call and its outcome
    current_user,   \* SpecTrade: UserManager.current_user is set
    portfolios,     \* SpecTrade: the user's entry of data/portfolios.json
    trade,          \* SpecTrade: the last portfolio call and how it ended
    overlapped      \* history variable: two history saves were under way at once

storeVars == <<ratesFs, histFs, now>>

runVars == <<pc, sources, idx, rates, k, all_rates, update_stats, runs>>

ghostVars == <<log, startRates, startHist, appended>>

callVars == <<calls, last, given>>

concVars == <<wpc, wcall, wfd, seen>>

loadVars == <<loaded>>

schedVars ==
    <<stop_event, scheduler_thread, tpc, interval, timer, cpc, came, cycle,
      done>>

freshVars == <<stored, ttl, clock, answer>>

\* the variables of the specifications that come after SpecConc
clientVars == <<got>>

\* the variables of the specifications that come after SpecFresh
tradeVars == <<current_user, portfolios, trade>>

lostVars == <<overlapped>>

moreVars == <<clientVars, tradeVars, lostVars>>

restVars == <<loadVars, schedVars, freshVars, moreVars>>

vars == <<storeVars, runVars, ghostVars, callVars, concVars, restVars>>

\* ------------------------------------------------------------------ bounds

\* A provider response names at most the first MaxCodes configured codes.
MaxCodes == 2
\* Raw provider quotes are the integers 0..MaxRaw.
MaxRaw == 1
\* The clock runs from 0 to MaxClock.
MaxClock == 1
\* run_update is called with at most MaxSources source names.
MaxSources == 2
\* At most MaxRuns calls of run_update in one behaviour.
MaxRuns == 1

\* ------------------------------------------------------------ ParserConfig

BASE_CURRENCY == "USD"

FIAT_CURRENCIES == <<"EUR", "GBP", "JPY", "RUB", "CNY">>

CRYPTO_CURRENCIES == <<"BTC", "ETH", "SOL", "ADA", "DOT">>

\* The dict keeps insertion order: CRYPTO_ID_KEYS is its key order.
CRYPTO_ID_KEYS == <<"BTC", "ETH", "SOL", "ADA", "DOT">>

CRYPTO_ID_MAP ==
    [c \in {"BTC", "ETH", "SOL", "ADA", "DOT"} |->
        CASE c = "BTC" -> "bitcoin"
          [] c = "ETH" -> "ethereum"
          [] c = "SOL" -> "solana"
          [] c = "ADA" -> "cardano"
          [] c = "DOT" -> "polkadot"]

Range(s) == {s[i] : i \in 1..Len(s)}

\* f"{code}_USD" and pair.split('_'): a pair key is the tuple of its codes.
PairKey(code) == <<code, "USD">>

PairBase(pair) == pair[1]

\* ------------------------------------------------------------ file system
\* One directory entry per path.  A file is absent, or holds a complete JSON
\* document, or bytes that do not parse: "corrupt" (foreign content) or
\* "torn" (opened for writing and truncated, the document not yet written in
\* full).  kind "json" carries the document in val.

NoDoc == <<>>

Absent == [kind |-> "absent", val |-> NoDoc]

Corrupt == [kind |-> "corrupt", val |-> NoDoc]

Torn == [kind |-> "torn", val |-> NoDoc]

Json(doc) == [kind |-> "json", val |-> doc]

\* A pair of paths: the canonical file and its temporary file f"{path}.tmp".
NewFs(content) == [canon |-> content, tmp |-> Absent]

\* open(temp_path, 'w'): creates the file or truncates the one that is there.
FsOpenW(fs) == [fs EXCEPT !.tmp = Torn]

\* Bytes of two writers mixed in one file: it does not parse either.
Mixed == [kind |-> "mixed", val |-> NoDoc]

\* A write through an open descriptor reaches the file the descriptor is on:
\* the one the temporary name still names ("tmp"), the one an os.replace has
\* meanwhile made the canonical file ("canon"), or one that no name names any
\* more ("orphan").
FsWrite(fs, where, content) ==
    CASE where = "tmp"   -> [fs EXCEPT !.tmp = content]
      [] where = "canon" -> [fs EXCEPT !.canon = content]
      [] OTHER           -> fs

\* json.dump + close on a descriptor of the temporary file.
FsWriteTmp(fs, doc) == FsWrite(fs, "tmp", Json(doc))

\* What a file holds after a document was written from offset 0 through a
\* descriptor: the document if the file was empty; if another writer's bytes
\* were there, the document or a mix of both, as the lengths decide.
Overlay(content, doc) ==
    IF content.kind = "torn" THEN {Json(doc)} ELSE {Json(doc), Mixed}

\* The file a descriptor is on after os.replace(temp_path, path).
FdAfterReplace(where) ==
    CASE where = "tmp"   -> "canon"
      [] where = "canon" -> "orphan"
      [] OTHER           -> where

\* os.replace(temp_path, path): the entry of path now names the temp file.
FsReplace(fs) == [canon |-> fs.tmp, tmp |-> Absent]

\* os.path.exists(path)
FsExists(fs) == fs.canon.kind # "absent"

\* json.load parses the canonical file
FsParses(fs) == fs.canon.kind = "json"

\* ------------------------------------------------------------ RatesStorage
\* Where a save call meets an I/O error (IOError/OSError), if anywhere:
\*   "open"     open(temp_path, 'w') fails, nothing is written;
\*   "write"    json.dump or the close fails after the file was truncated;
\*   "replace"  os.replace fails, the temporary file is complete.
IoOutcomes == {"ok", "open", "write", "replace"}

\* Mutant: the canonical file is removed before the rename (os.remove, then
\* os.rename), so a failing rename leaves no canonical file.
WriteThenReplace_removes_first(fs, doc, io) ==
    CASE io = "open"    -> [fs |-> fs, raised |-> TRUE]
      [] io = "write"   -> [fs |-> FsOpenW(fs), raised |-> TRUE]
      [] io = "replace" -> [fs |-> [canon |-> Absent, tmp |-> Json(doc)],
                            raised |-> TRUE]
      [] OTHER          -> [fs |-> FsReplace(FsWriteTmp(FsOpenW(fs), doc)),
                            raised |-> FALSE]

\* The body shared by the two save methods: temp file, dump, os.replace;
\* any IOError/OSError is re-raised as IOError.
WriteThenReplace(fs, doc, io) ==
    CASE io = "open"    -> [fs |-> fs, raised |-> TRUE]
      [] io = "write"   -> [fs |-> FsOpenW(fs), raised |-> TRUE]
      [] io = "replace" -> [fs |-> FsWriteTmp(FsOpenW(fs), doc), raised |-> TRUE]
      [] OTHER          -> [fs |-> FsReplace(FsWriteTmp(FsOpenW(fs), doc)),
                            raised |-> FALSE]

\* Mutant: the new pairs are patched into the snapshot that is there.
save_current_rates_patches(fs, rates_data, io) ==
    LET old == IF FsParses(fs) THEN fs.canon.val.pairs ELSE <<>>
        merged == [p \in DOMAIN old \cup DOMAIN rates_data.pairs |->
                      IF p \in DOMAIN rates_data.pairs
                      THEN rates_data.pairs[p] ELSE old[p]]
    IN  WriteThenReplace(fs, [rates_data EXCEPT !.pairs = merged], io)

\* Mutant: the document is written into the canonical file itself.
save_current_rates_in_place(fs, rates_data, io) ==
    CASE io = "open"  -> [fs |-> fs, raised |-> TRUE]
      [] io = "write" -> [fs |-> [fs EXCEPT !.canon = Torn], raised |-> TRUE]
      [] OTHER        -> [fs |-> [fs EXCEPT !.canon = Json(rates_data)],
                          raised |-> io = "replace"]

save_current_rates(fs, rates_data, io) == WriteThenReplace(fs, rates_data, io)

\* [] when the file is absent or does not parse
load_historical_records(fs) ==
    IF ~FsExists(fs) THEN <<>>
    ELSE IF FsParses(fs) THEN fs.canon.val ELSE <<>>

\* Mutant: the list written holds the new record only.
save_historical_record_overwrites(fs, record, io) ==
    WriteThenReplace(fs, <<record>>, io)

\* Mutant: the new record is put first (records.insert(0, record)).
save_historical_record_prepends(fs, record, io) ==
    WriteThenReplace(fs, <<record>> \o load_historical_records(fs), io)

save_historical_record(fs, record, io) ==
    LET records == Append(load_historical_records(fs), record)
    IN  WriteThenReplace(fs, records, io)

create_historical_record(pair, rate, source, meta, t) ==
    [id            |-> <<pair[1], pair[2], t>>,
     from_currency |-> pair[1],
     to_currency   |-> pair[2],
     rate          |-> rate,
     timestamp     |-> t,
     source        |-> source,
     meta          |-> meta]

\* ---------------------------------------------------------- source clients
\* What a client meets when it calls its provider: the transport's outcome
\* (status), the payload's "result" field (fiat provider) and the quotes
\* (data: provider key -> raw value).  A raw value is a number or a string
\* that float() rejects.

RawNum(n) == [t |-> "num", v |-> n]

RawStr == [t |-> "str", v |-> 0]

\* an entry of the crypto provider that has no "usd" field
RawNoUsd == [t |-> "nousd", v |-> 0]

\* A rate is the fraction <<numerator, denominator>>: float(raw) is raw/1,
\* 1.0 / float(raw) is 1/raw.
RateOf(n) == <<n, 1>>

Inverse(n) == <<1, n>>

ApiError == [kind |-> "api_error", rates |-> <<>>]

OtherError == [kind |-> "error", rates |-> <<>>]

Fetched(r) == [kind |-> "rates", rates |-> r]

\* CoinGeckoClient.fetch_rates
CoinGeckoFetch(resp) ==
    IF resp.status # "ok" THEN ApiError
    ELSE LET present == {c \in Range(CRYPTO_ID_KEYS) :
                            /\ CRYPTO_ID_MAP[c] \in DOMAIN resp.data
                            /\ resp.data[CRYPTO_ID_MAP[c]].t # "nousd"}
         IN  IF \E c \in present : resp.data[CRYPTO_ID_MAP[c]].t = "str"
             THEN ApiError
             ELSE Fetched([p \in {PairKey(c) : c \in present} |->
                              RateOf(resp.data[CRYPTO_ID_MAP[PairBase(p)]].v)])

\* Mutant: the raw USD -> X rate is stored as it came.
ExchangeRateFetch_keeps_raw(resp) ==
    IF ~resp.key \/ resp.status # "ok" \/ resp.result # "success" THEN ApiError
    ELSE LET present == {c \in Range(FIAT_CURRENCIES) :
                            c \in DOMAIN resp.data /\ c # "USD"}
         IN  IF \E c \in present :
                    resp.data[c].t = "str" \/ resp.data[c].v = 0
             THEN OtherError
             ELSE Fetched([p \in {PairKey(c) : c \in present} |->
                              RateOf(resp.data[PairBase(p)].v)])

\* ExchangeRateApiClient.fetch_rates
ExchangeRateFetch(resp) ==
    IF ~resp.key THEN ApiError
    ELSE IF resp.status # "ok" THEN ApiError
    ELSE IF resp.result # "success" THEN ApiError
    ELSE LET present == {c \in Range(FIAT_CURRENCIES) :
                            c \in DOMAIN resp.data /\ c # "USD"}
         IN  IF \E c \in present :
                    resp.data[c].t = "str" \/ resp.data[c].v = 0
             THEN OtherError
             ELSE Fetched([p \in {PairKey(c) : c \in present} |->
                              Inverse(resp.data[PairBase(p)].v)])

\* ------------------------------------------------------------ RatesUpdater
\* self.clients, in insertion order
CLIENT_KEYS == <<"coingecko", "exchangerate">>

\* A name that is no key of self.clients
UNKNOWN_SOURCE == "bogus"

SourceNames == Range(CLIENT_KEYS) \cup {UNKNOWN_SOURCE}

\* "last_refresh": None
NoTime == -1

SeqsUpTo(S, n) == UNION {[1..m -> S] : m \in 0..n}

\* The argument of run_update: None or a list of names.
Requests ==
    {[given |-> FALSE, names |-> <<>>]}
    \cup {[given |-> TRUE, names |-> l] : l \in SeqsUpTo(SourceNames, MaxSources)}

ClientName(source_name) ==
    IF source_name = "coingecko" THEN "CoinGecko" ELSE "ExchangeRate-API"

\* The provider keys a response may carry: the first MaxCodes of each list.
Min(a, b) == IF a < b THEN a ELSE b

CryptoKeys == {CRYPTO_ID_MAP[CRYPTO_ID_KEYS[i]] :
                 i \in 1..Min(MaxCodes, Len(CRYPTO_ID_KEYS))}

FiatKeys == {FIAT_CURRENCIES[i] : i \in 1..Min(MaxCodes, Len(FIAT_CURRENCIES))}

Quotes(keys) ==
    UNION {[present -> {RawNum(n) : n \in 0..MaxRaw}] : present \in SUBSET keys}

\* What the provider of a source may answer during a run.
Responses(source_name) ==
    IF source_name = "coingecko"
    THEN {[key |-> TRUE, status |-> "network", result |-> "", data |-> <<>>]}
         \cup {[key |-> TRUE, status |-> "ok", result |-> "", data |-> d] :
                  d \in Quotes(CryptoKeys)}
    ELSE {[key |-> TRUE, status |-> "network", result |-> "", data |-> <<>>],
          [key |-> TRUE, status |-> "ok", result |-> "error", data |-> <<>>]}
         \cup {[key |-> TRUE, status |-> "ok", result |-> "success", data |-> d] :
                  d \in Quotes(FiatKeys)}

\* client.fetch_rates() of self.clients[source_name]
FetchRates(source_name, resp) ==
    IF source_name = "coingecko" THEN CoinGeckoFetch(resp)
    ELSE ExchangeRateFetch(resp)

\* rates.items() iterates in insertion order: the order of the config lists.
PairOrder ==
    [i \in 1..Len(CRYPTO_ID_KEYS) |-> PairKey(CRYPTO_ID_KEYS[i])]
    \o [i \in 1..Len(FIAT_CURRENCIES) |-> PairKey(FIAT_CURRENCIES[i])]

Items(d) == SelectSeq(PairOrder, LAMBDA p : p \in DOMAIN d)

\* dict.update
Update(d, e) ==
    [p \in DOMAIN d \cup DOMAIN e |-> IF p \in DOMAIN e THEN e[p] ELSE d[p]]

\* self.config.CRYPTO_ID_MAP.get(code, "")
RawId(code) == IF code \in DOMAIN CRYPTO_ID_MAP THEN CRYPTO_ID_MAP[code] ELSE ""

InitStats ==
    [total_rates     |-> 0,
     sources_updated |-> <<>>,
     sources_failed  |-> <<>>,
     errors          |-> <<>>,
     last_refresh    |-> NoTime]

\* Mutant: the error is recorded, the source name is not.
Failed_drops_source(stats, source_name, error_msg) ==
    [stats EXCEPT !.errors = Append(@, error_msg)]

\* the four branches that append to errors and sources_failed
Failed(stats, source_name, error_msg) ==
    [stats EXCEPT !.errors = Append(@, error_msg),
                  !.sources_failed = Append(@, source_name)]

\* Mutant: each pair is stamped on its own, before last_refresh is read.
RatesData_stamps_each_pair(all, current_time) ==
    [pairs |-> [p \in DOMAIN all |->
                  [rate       |-> all[p],
                   updated_at |-> IF current_time > 0 THEN current_time - 1 ELSE 0,
                   source     |-> IF PairBase(p) \in Range(CRYPTO_CURRENCIES)
                                  THEN "CoinGecko" ELSE "ExchangeRate-API"]],
     last_refresh |-> current_time]

\* rates_data, built after the loop
\* Mutant: every pair is labelled with the first client.
RatesData_labels_all_alike(all, current_time) ==
    [pairs |-> [p \in DOMAIN all |->
                  [rate       |-> all[p],
                   updated_at |-> current_time,
                   source     |-> "CoinGecko"]],
     last_refresh |-> current_time]

RatesData(all, current_time) ==
    [pairs |-> [p \in DOMAIN all |->
                  [rate       |-> all[p],
                   updated_at |-> current_time,
                   source     |-> IF PairBase(p) \in Range(CRYPTO_CURRENCIES)
                                  THEN "CoinGecko" ELSE "ExchangeRate-API"]],
     last_refresh |-> current_time]

LogEntry(name, result, fetched) ==
    [name |-> name, result |-> result, rates |-> fetched]

Idle == pc \in {"idle", "returned", "raised"}

InLoop == pc = "loop" /\ idx <= Len(sources)

AfterLoop == pc = "loop" /\ idx > Len(sources)

\* run_update is called: lines 28-39
StartRun(req) ==
    /\ Idle
    /\ runs < MaxRuns
    /\ runs' = runs + 1
    /\ pc' = "loop"
    /\ sources' = IF req.given THEN req.names ELSE CLIENT_KEYS
    /\ idx' = 1
    /\ rates' = <<>>
    /\ k' = 0
    /\ all_rates' = <<>>
    /\ update_stats' = InitStats
    /\ log' = <<>>
    /\ startRates' = ratesFs
    /\ startHist' = load_historical_records(histFs)
    /\ appended' = <<>>
    /\ UNCHANGED storeVars

\* Mutant: a failed source ends the loop (break instead of continue).
SourceFailed_aborts(error_msg, result, fetched) ==
    /\ update_stats' = [update_stats EXCEPT
                           !.errors = Append(@, error_msg),
                           !.sources_failed = Append(@, sources[idx])]
    /\ log' = Append(log, [name |-> sources[idx], result |-> result,
                           rates |-> fetched])
    /\ idx' = Len(sources) + 1
    /\ pc' = "loop"
    /\ rates' = <<>>
    /\ k' = 0
    /\ UNCHANGED <<sources, all_rates, runs, startRates, startHist>>

\* one source ends as failed: the loop goes on with the next one
SourceFailed(error_msg, result, fetched) ==
    /\ update_stats' = Failed(update_stats, sources[idx], error_msg)
    /\ log' = Append(log, LogEntry(sources[idx], result, fetched))
    /\ idx' = idx + 1
    /\ pc' = "loop"
    /\ rates' = <<>>
    /\ k' = 0
    /\ UNCHANGED <<sources, all_rates, runs, startRates, startHist>>

\* lines 42-47
UnknownSource ==
    /\ InLoop
    /\ sources[idx] \notin Range(CLIENT_KEYS)
    /\ SourceFailed(<<"Unknown source", sources[idx]>>, "unknown", <<>>)
    /\ UNCHANGED <<storeVars, appended>>

\* lines 50-54: fetch_rates returned a non-empty dict
FetchOk(resp) ==
    /\ InLoop
    /\ sources[idx] \in Range(CLIENT_KEYS)
    /\ LET out == FetchRates(sources[idx], resp)
       IN  /\ out.kind = "rates"
           /\ out.rates # <<>>
           /\ rates' = out.rates
    /\ k' = 1
    /\ pc' = "hist"
    /\ UNCHANGED <<storeVars, sources, idx, all_rates, update_stats, runs,
                   ghostVars>>

\* lines 69-73: fetch_rates returned an empty dict
FetchEmpty(resp) ==
    /\ InLoop
    /\ sources[idx] \in Range(CLIENT_KEYS)
    /\ LET out == FetchRates(sources[idx], resp)
       IN  /\ out.kind = "rates"
           /\ out.rates = <<>>
    /\ SourceFailed(<<"No rates received from", ClientName(sources[idx])>>,
                    "empty", <<>>)
    /\ UNCHANGED <<storeVars, appended>>

\* lines 75-79: fetch_rates raised ApiRequestError
FetchApiError(resp) ==
    /\ InLoop
    /\ sources[idx] \in Range(CLIENT_KEYS)
    /\ FetchRates(sources[idx], resp).kind = "api_error"
    /\ SourceFailed(<<"Failed to fetch from", ClientName(sources[idx])>>,
                    "api_error", <<>>)
    /\ UNCHANGED <<storeVars, appended>>

\* lines 80-84: fetch_rates raised another exception
FetchOtherError(resp) ==
    /\ InLoop
    /\ sources[idx] \in Range(CLIENT_KEYS)
    /\ FetchRates(sources[idx], resp).kind = "error"
    /\ SourceFailed(<<"Unexpected error from", ClientName(sources[idx])>>,
                    "error", <<>>)
    /\ UNCHANGED <<storeVars, appended>>

\* lines 55-63: the record of the k-th item of rates
CurrentRecord ==
    LET pair == Items(rates)[k]
        meta == [raw_id            |-> RawId(PairBase(pair)),
                 status_code       |-> 200,
                 request_timestamp |-> now]
    IN  create_historical_record(pair, rates[pair], ClientName(sources[idx]),
                                 meta, now)

\* lines 55-68: one turn of the inner loop; after the last item the source
\* is merged into all_rates and marked as updated
SaveHistoryOk ==
    /\ pc = "hist"
    /\ LET res == save_historical_record(histFs, CurrentRecord, "ok")
       IN  /\ ~res.raised
           /\ histFs' = res.fs
    /\ appended' = Append(appended, CurrentRecord)
    /\ IF k < Len(Items(rates))
       THEN /\ k' = k + 1
            /\ UNCHANGED <<pc, idx, rates, all_rates, update_stats, log>>
       ELSE /\ all_rates' = Update(all_rates, rates)
            /\ update_stats' =
                  [update_stats EXCEPT !.sources_updated = Append(@, sources[idx])]
            /\ log' = Append(log, LogEntry(sources[idx], "ok", rates))
            /\ idx' = idx + 1
            /\ pc' = "loop"
            /\ rates' = <<>>
            /\ k' = 0
    /\ UNCHANGED <<ratesFs, now, sources, runs, startRates, startHist>>

\* Mutant: the rates are merged into all_rates before their records are
\* written, so a failed write leaves them there.
SaveHistoryFails_keeps_rates(io) ==
    /\ pc = "hist"
    /\ LET res == save_historical_record(histFs, CurrentRecord, io)
       IN  /\ res.raised
           /\ histFs' = res.fs
    /\ all_rates' = Update(all_rates, rates)
    /\ update_stats' = Failed(update_stats, sources[idx],
                              <<"Unexpected error from", ClientName(sources[idx])>>)
    /\ log' = Append(log, LogEntry(sources[idx], "hist_error", rates))
    /\ idx' = idx + 1
    /\ pc' = "loop"
    /\ rates' = <<>>
    /\ k' = 0
    /\ UNCHANGED <<ratesFs, now, sources, runs, startRates, startHist, appended>>

\* line 64 raises IOError, caught at lines 80-84
SaveHistoryFails(io) ==
    /\ pc = "hist"
    /\ LET res == save_historical_record(histFs, CurrentRecord, io)
       IN  /\ res.raised
           /\ histFs' = res.fs
    /\ SourceFailed(<<"Unexpected error from", ClientName(sources[idx])>>,
                    "hist_error", rates)
    /\ UNCHANGED <<ratesFs, now, appended>>

\* Mutant: the snapshot is written even when nothing was fetched.
FinishEmpty_writes_snapshot ==
    /\ AfterLoop
    /\ all_rates = <<>>
    /\ ratesFs' = save_current_rates(ratesFs, RatesData(all_rates, now), "ok").fs
    /\ update_stats' = [update_stats EXCEPT !.last_refresh = now]
    /\ pc' = "returned"
    /\ UNCHANGED <<histFs, now, sources, idx, rates, k, all_rates, runs,
                   ghostVars>>

\* lines 86, 105: nothing fetched, the summary is returned as it is
FinishEmpty ==
    /\ AfterLoop
    /\ all_rates = <<>>
    /\ pc' = "returned"
    /\ UNCHANGED <<storeVars, sources, idx, rates, k, all_rates, update_stats,
                   runs, ghostVars>>

\* lines 86-105: the snapshot is written and the summary returned
FinishSaved ==
    /\ AfterLoop
    /\ all_rates # <<>>
    /\ LET res == save_current_rates(ratesFs, RatesData(all_rates, now), "ok")
       IN  /\ ~res.raised
           /\ ratesFs' = res.fs
    /\ update_stats' = [update_stats EXCEPT !.total_rates = Cardinality(DOMAIN all_rates),
                                            !.last_refresh = now]
    /\ pc' = "returned"
    /\ UNCHANGED <<histFs, now, sources, idx, rates, k, all_rates, runs,
                   ghostVars>>

\* line 100 raises IOError and nothing in run_update catches it
FinishSaveFails(io) ==
    /\ AfterLoop
    /\ all_rates # <<>>
    /\ LET res == save_current_rates(ratesFs, RatesData(all_rates, now), io)
       IN  /\ res.raised
           /\ ratesFs' = res.fs
    /\ pc' = "raised"
    /\ UNCHANGED <<histFs, now, sources, idx, rates, k, all_rates,
                   update_stats, runs, ghostVars>>

\* time passes
Tick ==
    /\ now < MaxClock
    /\ now' = now + 1
    /\ UNCHANGED <<ratesFs, histFs, runVars, ghostVars>>

\* the answers the provider of the source at hand may give
Answers ==
    IF InLoop /\ sources[idx] \in Range(CLIENT_KEYS)
    THEN Responses(sources[idx]) ELSE {}

\* The files found at start are what earlier runs left: no file, content
\* that does not parse, or a snapshot that run_update wrote at instant 0 and
\* a history that it appended to.
PriorPairs == {PairKey(c) : c \in {CRYPTO_ID_KEYS[1], FIAT_CURRENCIES[1]}}

PriorRates ==
    UNION {[S -> {RateOf(1)}] : S \in (SUBSET PriorPairs) \ {{}}}

PriorRecord ==
    create_historical_record(
        PairKey(CRYPTO_ID_KEYS[1]), RateOf(1), "CoinGecko",
        [raw_id |-> RawId(CRYPTO_ID_KEYS[1]), status_code |-> 200,
         request_timestamp |-> 0], 0)

InitRatesFiles == {Absent, Corrupt} \cup {Json(RatesData(d, 0)) : d \in PriorRates}

InitHistFiles == {Absent, Corrupt, Json(<<PriorRecord>>)}

\* no storage call made yet
NoCall ==
    [op |-> "none", io |-> "none", raised |-> FALSE, prev_io |-> "none",
     before |-> Absent, record |-> PriorRecord]

\* the two threads that write: the scheduler's loop and a manual run_once
Writers == {"scheduler", "manual"}

NoSave == [op |-> "none", doc |-> NoDoc]

\* no load call made yet
NoLoad == [op |-> "none", raised |-> FALSE, val |-> NoDoc, at |-> 0]

\* At most MaxThreads thread objects are kept apart; a thread that has ended
\* gives its place to the next one created.
MaxThreads == 2

Threads == 1..MaxThreads

\* self._scheduler_thread = None
NoThread == 0

\* no updated_at value handed over yet
NoValue == [shape |-> "none", t |-> 0]

\* is_rate_fresh not called yet
NoAnswer == [op |-> "none", raised |-> FALSE, val |-> FALSE, at |-> 0]

\* the files the run starts from
InitFiles ==
    /\ ratesFs \in {NewFs(c) : c \in InitRatesFiles}
    /\ histFs \in {NewFs(c) : c \in InitHistFiles}
    /\ now = 0

\* no file written yet
NoFiles ==
    /\ ratesFs = NewFs(Absent)
    /\ histFs = NewFs(Absent)
    /\ now = 0

\* no run_update called yet
InitRun ==
    /\ pc = "idle"
    /\ sources = <<>>
    /\ idx = 0
    /\ rates = <<>>
    /\ k = 0
    /\ all_rates = <<>>
    /\ update_stats = InitStats
    /\ runs = 0
    /\ log = <<>>
    /\ startRates = ratesFs
    /\ startHist = load_historical_records(histFs)
    /\ appended = <<>>

\* no storage call made or begun yet
InitCalls ==
    /\ calls = 0
    /\ last = NoCall
    /\ given = NoDoc
    /\ wpc = [w \in Writers |-> "idle"]
    /\ wcall = [w \in Writers |-> NoSave]
    /\ wfd = [w \in Writers |-> "none"]
    /\ seen = [rates |-> "none", hist |-> "none"]
    /\ loaded = NoLoad

\* RatesScheduler.__init__: no thread, the stop flag clear
InitScheduler ==
    /\ stop_event = FALSE
    /\ scheduler_thread = NoThread
    /\ tpc = [t \in Threads |-> "none"]
    /\ interval = [t \in Threads |-> 0]
    /\ timer = [t \in Threads |-> 0]
    /\ cpc = "idle"
    /\ came = [t \in Threads |-> "none"]
    /\ cycle = [t \in Threads |-> "none"]
    /\ done = [op |-> "none", prev |-> "none", running |-> FALSE,
               launched |-> FALSE]

\* is_rate_fresh not called yet
InitFreshness ==
    /\ stored = NoValue
    /\ ttl = 0
    /\ clock = 0
    /\ answer = NoAnswer

\* no fetch_rates called yet
NoFetch ==
    [source |-> "none", resp |-> <<>>, out |-> [kind |-> "none", rates |-> <<>>]]

InitClients == got = NoFetch

\* data/portfolios.json holds no portfolio of the user
NoPortfolio == [exists |-> FALSE, wallets |-> <<>>]

\* no portfolio call made yet
NoTrade ==
    [op |-> "none", code |-> "", amount |-> [t |-> "num", v |-> 0],
     error |-> "none", rate |-> 0, left |-> 0, before |-> NoPortfolio, at |-> 0]

InitTrading ==
    /\ current_user = FALSE
    /\ portfolios = NoPortfolio
    /\ trade = NoTrade

\* no save_historical_record call begun yet
InitOverlap == overlapped = FALSE

Init ==
    /\ InitFiles
    /\ InitRun
    /\ InitCalls
    /\ InitScheduler
    /\ InitFreshness
    /\ InitClients
    /\ InitTrading
    /\ InitOverlap

RunNext ==
    \/ \E req \in Requests : StartRun(req)
    \/ UnknownSource
    \/ \E resp \in Answers : FetchOk(resp)
    \/ \E resp \in Answers : FetchEmpty(resp)
    \/ \E resp \in Answers : FetchApiError(resp)
    \/ \E resp \in Answers : FetchOtherError(resp)
    \/ SaveHistoryOk
    \/ \E io \in IoOutcomes : SaveHistoryFails(io)
    \/ FinishEmpty
    \/ FinishSaved
    \/ \E io \in IoOutcomes : FinishSaveFails(io)
    \/ Tick

Next == RunNext /\ UNCHANGED <<callVars, concVars, restVars>>

Spec == Init /\ [][Next]_vars

\* ------------------------------------------------ run_update: the claims
\* The names of the sources of a log, in order
Names(l) == [i \in 1..Len(l) |-> l[i].name]

\* The sources of this run that ended as updated
Succeeded == SelectSeq(log, LAMBDA e : e.result = "ok")

\* The sources of this run whose fetch_rates returned a non-empty dict
ReturnedRates == SelectSeq(log, LAMBDA e : e.rates # <<>>)

\* The pairs fetched by the sources that succeeded in this run
SucceededPairs == UNION {DOMAIN Succeeded[i].rates : i \in 1..Len(Succeeded)}

RunEnded == pc \in {"returned", "raised"}

\* The pairs of the snapshot file (none if it is absent or does not parse)
SnapshotPairs == IF FsParses(ratesFs) THEN DOMAIN ratesFs.canon.val.pairs ELSE {}

\* C1: after a run_update that returns with a non-empty combined mapping, the
\* pairs of the persisted snapshot are exactly the pairs fetched by the
\* sources that succeeded in this run; pairs that only the previous snapshot
\* held are gone.
C1_SnapshotReplacedWholesale ==
    (pc = "returned" /\ SucceededPairs # {}) =>
        /\ FsParses(ratesFs)
        /\ SnapshotPairs = SucceededPairs
        /\ \A p \in SnapshotPairs : ratesFs.canon.val.pairs[p].rate = all_rates[p]

\* a stale pair of the previous snapshot was dropped by this run
C1_Witness ==
    /\ pc = "returned"
    /\ SucceededPairs # {}
    /\ startRates.canon.kind = "json"
    /\ \E p \in DOMAIN startRates.canon.val.pairs : p \notin SnapshotPairs

\* C2: in every snapshot file every pair's updated_at equals last_refresh.
C2_OneRefreshInstant ==
    FsParses(ratesFs) =>
        \A p \in SnapshotPairs :
            ratesFs.canon.val.pairs[p].updated_at = ratesFs.canon.val.last_refresh

\* this run wrote a snapshot of two pairs or more at a later instant than the
\* previous one
C2_Witness ==
    /\ pc = "returned"
    /\ update_stats.last_refresh = 1
    /\ startRates.canon.kind = "json"
    /\ Cardinality(SnapshotPairs) >= 2
    /\ FsParses(ratesFs) /\ ratesFs.canon.val.last_refresh = 1

\* C3: when the combined mapping is empty the run returns a summary with
\* total_rates = 0 and last_refresh = None and both rates files are as they
\* were when the run started.
C3_EmptyRunLeavesSnapshot ==
    (RunEnded /\ SucceededPairs = {}) =>
        /\ pc = "returned"
        /\ ratesFs = startRates
        /\ update_stats.total_rates = 0
        /\ update_stats.last_refresh = NoTime

\* two sources failed, one of them after it had fetched rates, over a
\* snapshot of an earlier run
C3_Witness ==
    /\ pc = "returned"
    /\ Len(log) = 2
    /\ SucceededPairs = {}
    /\ \E i \in 1..2 : log[i].result = "hist_error"
    /\ startRates.canon.kind = "json"
    /\ ratesFs = startRates

\* C4: whatever becomes of a source, the loop goes on: the sources handled so
\* far are the first idx - 1 names of the request, in order, and a run that
\* ended has handled them all.
C4_EverySourceProcessed ==
    /\ pc \in {"loop", "hist"} => Names(log) = SubSeq(sources, 1, idx - 1)
    /\ RunEnded => Names(log) = sources

\* every kind of failure was followed by the processing of the next source
C4_Witness ==
    /\ RunEnded
    /\ Len(log) = 2
    /\ log[1].result = "hist_error"
    /\ log[2].result = "ok"

\* C5: run_update never raises: every run ends by returning its summary.
C5_NeverRaises == pc # "raised"

\* C6 as stated: sources_updated is, in request order, the sources that
\* returned a non-empty result, sources_failed the others, with one error per
\* failed source, and total_rates counts the pairs of the snapshot written.
C6_AsStated ==
    pc = "returned" =>
        /\ update_stats.sources_updated = Names(ReturnedRates)
        /\ update_stats.sources_failed =
              Names(SelectSeq(log, LAMBDA e : e.rates = <<>>))
        /\ Len(update_stats.errors) = Len(update_stats.sources_failed)
        /\ update_stats.total_rates = Cardinality(SucceededPairs)

\* C6 amended: sources_updated is, in request order, the sources that
\* returned a non-empty result and whose historical records were all saved;
\* sources_failed is the others, with one error per failed source and the
\* errors in the same order; total_rates counts the pairs of the snapshot
\* written by this run, which are the pairs of the updated sources.
C6_SummaryClassifies ==
    pc = "returned" =>
        /\ update_stats.sources_updated = Names(Succeeded)
        /\ update_stats.sources_failed =
              Names(SelectSeq(log, LAMBDA e : e.result # "ok"))
        /\ Len(update_stats.errors) = Len(update_stats.sources_failed)
        /\ Len(update_stats.sources_updated) + Len(update_stats.sources_failed)
              = Len(sources)
        /\ update_stats.total_rates = Cardinality(SucceededPairs)
        /\ SucceededPairs # {} => SnapshotPairs = SucceededPairs

\* the first source succeeds with every pair a response can carry, the second
\* fails on the network
C6_Witness ==
    /\ pc = "returned"
    /\ sources = <<"coingecko", "exchangerate">>
    /\ update_stats.sources_updated = <<"coingecko">>
    /\ update_stats.sources_failed = <<"exchangerate">>
    /\ log[2].result = "api_error"
    /\ update_stats.total_rates = MaxCodes
    /\ SnapshotPairs = DOMAIN log[1].rates

MaxCalls == 3

\* the records and snapshots the caller may pass
StoreRecords ==
    {create_historical_record(
         PairKey(CRYPTO_ID_KEYS[i]), RateOf(n), "CoinGecko",
         [raw_id |-> RawId(CRYPTO_ID_KEYS[i]), status_code |-> 200,
          request_timestamp |-> now], now) :
       i \in 1..Min(MaxCodes, Len(CRYPTO_ID_KEYS)), n \in 0..MaxRaw}

StoreSnapshots == {RatesData(d, now) : d \in PriorRates}

Called(op, io, raised, before, record) ==
    [op |-> op, io |-> io, raised |-> raised, prev_io |-> last.io,
     before |-> before, record |-> record]

\* storage.save_historical_record(record) returns
StoreAppendOk(record) ==
    /\ calls < MaxCalls
    /\ LET res == save_historical_record(histFs, record, "ok")
       IN  /\ ~res.raised
           /\ histFs' = res.fs
    /\ appended' = Append(appended, record)
    /\ calls' = calls + 1
    /\ last' = Called("save_historical_record", "ok", FALSE, histFs.canon, record)
    /\ UNCHANGED <<ratesFs, now, runVars, log, startRates, startHist, given,
                   concVars, restVars>>

\* storage.save_historical_record(record) raises IOError
StoreAppendFails(record, io) ==
    /\ calls < MaxCalls
    /\ LET res == save_historical_record(histFs, record, io)
       IN  /\ res.raised
           /\ histFs' = res.fs
    /\ calls' = calls + 1
    /\ last' = Called("save_historical_record", io, TRUE, histFs.canon, record)
    /\ UNCHANGED <<ratesFs, now, runVars, ghostVars, given, concVars, restVars>>

\* storage.save_current_rates(rates_data) returns or raises IOError
StoreSaveRates(rates_data, io) ==
    /\ calls < MaxCalls
    /\ LET res == save_current_rates(ratesFs, rates_data, io)
       IN  /\ ratesFs' = res.fs
           /\ last' = Called("save_current_rates", io, res.raised,
                             ratesFs.canon, last.record)
    /\ calls' = calls + 1
    /\ given' = rates_data
    /\ UNCHANGED <<histFs, now, runVars, ghostVars, concVars, restVars>>

StoreTick ==
    /\ now < MaxClock
    /\ now' = now + 1
    /\ UNCHANGED <<ratesFs, histFs, runVars, ghostVars, callVars, concVars,
                   restVars>>

StoreNext ==
    \/ \E record \in StoreRecords : StoreAppendOk(record)
    \/ \E record \in StoreRecords, io \in IoOutcomes : StoreAppendFails(record, io)
    \/ \E d \in StoreSnapshots, io \in IoOutcomes : StoreSaveRates(d, io)
    \/ StoreTick

SpecStore == Init /\ [][StoreNext]_vars

\* the io outcomes of the calls made so far held no failure
NoFailureYet == Len(appended) = calls

\* C9: from an empty history, N appends without a failure make
\* load_historical_records return exactly the N records, in insertion order.
C9_AppendsKeepInsertionOrder ==
    (startHist = <<>> /\ NoFailureYet) =>
        /\ load_historical_records(histFs) = appended
        /\ Len(load_historical_records(histFs)) = calls

\* MaxCalls records appended, not all the same
C9_Witness ==
    /\ startHist = <<>>
    /\ NoFailureYet
    /\ calls = MaxCalls
    /\ appended[1] # appended[2]
    /\ load_historical_records(histFs) = appended

\* C10: an append that fails at os.replace, its temporary file written,
\* raises and leaves the canonical history file as it was; the successful
\* append that follows yields the earlier records plus the new one.
C10_FailedAppendLosesNothing ==
    /\ (last.op = "save_historical_record" /\ last.io = "replace") =>
          /\ last.raised
          /\ histFs.canon = last.before
          /\ histFs.tmp.kind = "json"
          /\ load_historical_records(histFs) = startHist \o appended
    /\ (last.op = "save_historical_record" /\ last.io = "ok"
          /\ last.prev_io = "replace") =>
          /\ load_historical_records(histFs)
                = Append(load_historical_records(NewFs(last.before)), last.record)
          /\ load_historical_records(histFs) = startHist \o appended

\* a failure at os.replace over two records, then a successful append
C10_Witness ==
    /\ last.op = "save_historical_record"
    /\ last.io = "ok"
    /\ last.prev_io = "replace"
    /\ Len(load_historical_records(histFs)) = 3
    /\ Len(startHist) = 1

\* ================================================================ SpecConc
\* Two writers call the save methods of RatesStorage at the same time; their
\* file operations interleave.  MaxWrites save calls at most are begun.
MaxWrites == 2

ConcSnapshots == {RatesData(d, 0) : d \in PriorRates}

ConcRecords ==
    {create_historical_record(
         PairKey(CRYPTO_ID_KEYS[1]), RateOf(n), "CoinGecko",
         [raw_id |-> RawId(CRYPTO_ID_KEYS[1]), status_code |-> 200,
          request_timestamp |-> 0], 0) : n \in 0..MaxRaw}

OnRates(w) == wcall[w].op = "save_current_rates"

OnHistory(w) == wcall[w].op = "save_historical_record"

\* the pair of files the call of writer w works on
FsOf(w) == IF OnRates(w) THEN ratesFs ELSE histFs

\* the descriptors of the other writers after writer w replaced the file
FdsAfterReplace(w) ==
    [v \in Writers |->
        IF v # w /\ wcall[v].op = wcall[w].op THEN FdAfterReplace(wfd[v])
        ELSE wfd[v]]

SetFs(w, fs) ==
    IF OnRates(w) THEN ratesFs' = fs /\ UNCHANGED histFs
    ELSE histFs' = fs /\ UNCHANGED ratesFs

\* save_current_rates(rates_data) is entered
BeginSaveRates(w, rates_data) ==
    /\ wpc[w] = "idle"
    /\ calls < MaxWrites
    /\ calls' = calls + 1
    /\ wcall' = [wcall EXCEPT ![w] = [op |-> "save_current_rates", doc |-> rates_data]]
    /\ wpc' = [wpc EXCEPT ![w] = "open"]
    /\ UNCHANGED <<storeVars, runVars, ghostVars, last, given, wfd, seen,
                   restVars>>

\* save_historical_record(record) is entered
BeginSaveHistory(w, record) ==
    /\ wpc[w] = "idle"
    /\ calls < MaxWrites
    /\ calls' = calls + 1
    /\ wcall' = [wcall EXCEPT ![w] = [op |-> "save_historical_record", doc |-> <<record>>]]
    /\ wpc' = [wpc EXCEPT ![w] = "load"]
    /\ overlapped' = (overlapped \/ \E v \in Writers \ {w} : OnHistory(v))
    /\ UNCHANGED <<storeVars, runVars, ghostVars, last, given, wfd, seen,
                   loadVars, schedVars, freshVars, clientVars, tradeVars>>

\* Mutant: the records of the file are not read, the list written holds the
\* new record only.
LoadRecords_reads_nothing(w) ==
    /\ wpc[w] = "load"
    /\ wpc' = [wpc EXCEPT ![w] = "open"]
    /\ UNCHANGED <<storeVars, runVars, ghostVars, callVars, wcall, wfd, seen,
                   restVars>>

\* records = self.load_historical_records(); records.append(record)
LoadRecords(w) ==
    /\ wpc[w] = "load"
    /\ wcall' = [wcall EXCEPT ![w].doc = load_historical_records(histFs) \o @]
    /\ wpc' = [wpc EXCEPT ![w] = "open"]
    /\ UNCHANGED <<storeVars, runVars, ghostVars, callVars, wfd, seen,
                   restVars>>

\* open(temp_path, 'w')
OpenTmp(w) ==
    /\ wpc[w] = "open"
    /\ SetFs(w, FsOpenW(FsOf(w)))
    /\ wfd' = [wfd EXCEPT ![w] = "tmp"]
    /\ wpc' = [wpc EXCEPT ![w] = "write"]
    /\ UNCHANGED <<now, runVars, ghostVars, callVars, wcall, seen, restVars>>

\* json.dump(...) and the end of the with block
WriteDoc(w) ==
    /\ wpc[w] = "write"
    /\ LET fs == FsOf(w)
           content == IF wfd[w] = "canon" THEN fs.canon ELSE fs.tmp
       IN  \E c \in Overlay(content, wcall[w].doc) : SetFs(w, FsWrite(fs, wfd[w], c))
    /\ wfd' = [wfd EXCEPT ![w] = "none"]
    /\ wpc' = [wpc EXCEPT ![w] = "replace"]
    /\ UNCHANGED <<now, runVars, ghostVars, callVars, wcall, seen, restVars>>

\* os.replace(temp_path, path)
ReplaceOk(w) ==
    /\ wpc[w] = "replace"
    /\ FsOf(w).tmp.kind # "absent"
    /\ SetFs(w, FsReplace(FsOf(w)))
    /\ wfd' = FdsAfterReplace(w)
    /\ wpc' = [wpc EXCEPT ![w] = "idle"]
    /\ wcall' = [wcall EXCEPT ![w] = NoSave]
    /\ appended' = IF OnHistory(w)
                   THEN Append(appended, wcall[w].doc[Len(wcall[w].doc)])
                   ELSE appended
    /\ UNCHANGED <<now, runVars, log, startRates, startHist, callVars, seen,
                   restVars>>

\* os.replace finds no temporary file: FileNotFoundError, raised as IOError
ReplaceFails(w) ==
    /\ wpc[w] = "replace"
    /\ FsOf(w).tmp.kind = "absent"
    /\ wpc' = [wpc EXCEPT ![w] = "idle"]
    /\ wcall' = [wcall EXCEPT ![w] = NoSave]
    /\ UNCHANGED <<storeVars, runVars, ghostVars, callVars, wfd, seen,
                   restVars>>

\* a reader opens the canonical files and reads them
Read ==
    /\ seen' = [rates |-> ratesFs.canon.kind, hist |-> histFs.canon.kind]
    /\ UNCHANGED <<storeVars, runVars, ghostVars, callVars, wpc, wcall, wfd,
                   restVars>>

ConcNext ==
    \/ \E w \in Writers, d \in ConcSnapshots : BeginSaveRates(w, d)
    \/ \E w \in Writers, r \in ConcRecords : BeginSaveHistory(w, r)
    \/ \E w \in Writers : LoadRecords(w)
    \/ \E w \in Writers : OpenTmp(w)
    \/ \E w \in Writers : WriteDoc(w)
    \/ \E w \in Writers : ReplaceOk(w)
    \/ \E w \in Writers : ReplaceFails(w)
    \/ Read

SpecConc == Init /\ [][ConcNext]_vars

\* C7: a reader of a canonical file never finds a partially written file.
C7_ReaderNeverSeesTornFile ==
    /\ seen.rates \notin {"torn", "mixed"}
    /\ seen.hist \notin {"torn", "mixed"}

\* =============================================================== SpecSched
\* RatesScheduler (scheduler.py): one caller of start and stop, and the
\* threads it launches, each running _scheduler_loop.  The steps of the
\* threads and of the caller interleave.  run_update is the black box of
\* Spec here: a cycle either returns its summary or raises (C5); what it
\* writes to the files is left to Spec.

\* start is called with interval_minutes None or 1..MaxInterval
MaxInterval == 1

UPDATE_INTERVAL_MINUTES == 5

\* interval_seconds = interval_minutes * 60; the clock of the waits advances
\* a minute at a time
Minute == 60

\* interval_minutes or self.config.UPDATE_INTERVAL_MINUTES (None is 0)
IntervalOf(interval_minutes) ==
    IF interval_minutes = 0 THEN UPDATE_INTERVAL_MINUTES ELSE interval_minutes

\* Thread.is_alive()
Alive(t) == tpc[t] \in {"check", "update", "wait"}

AliveLoops == {t \in Threads : Alive(t)}

\* Mutant: start never finds a loop running.
IsRunning_never == FALSE

\* self._scheduler_thread and self._scheduler_thread.is_alive()
IsRunning == scheduler_thread # NoThread /\ Alive(scheduler_thread)

StartCalled(running, launched) ==
    [op |-> "start", prev |-> done.op, running |-> running,
     launched |-> launched]

\* start(): "Scheduler is already running", return
StartNoop ==
    /\ cpc = "idle"
    /\ IsRunning
    /\ done' = StartCalled(AliveLoops # {}, FALSE)
    /\ UNCHANGED <<stop_event, scheduler_thread, tpc, interval, timer, cpc,
                   came, cycle>>

\* start(): clear the flag, create the thread and start it
StartLaunch(interval_minutes) ==
    /\ cpc = "idle"
    /\ ~IsRunning
    /\ stop_event' = FALSE
    /\ \E t \in Threads \ AliveLoops :
          /\ scheduler_thread' = t
          /\ tpc' = [tpc EXCEPT ![t] = "check"]
          /\ interval' =
                [interval EXCEPT ![t] = IntervalOf(interval_minutes) * Minute]
          /\ timer' = [timer EXCEPT ![t] = 0]
          /\ came' = [came EXCEPT ![t] = "start"]
          /\ cycle' = [cycle EXCEPT ![t] = "none"]
    /\ done' = StartCalled(AliveLoops # {}, TRUE)
    /\ UNCHANGED cpc

\* stop(): set the flag; with a thread, go on to join it
StopSet ==
    /\ cpc = "idle"
    /\ stop_event' = TRUE
    /\ cpc' = IF scheduler_thread # NoThread THEN "join" ELSE "idle"
    /\ done' = [op |-> "stop", prev |-> done.op, running |-> AliveLoops # {},
                launched |-> FALSE]
    /\ UNCHANGED <<scheduler_thread, tpc, interval, timer, came, cycle>>

\* join(timeout=5) returns: the thread has ended
JoinDone ==
    /\ cpc = "join"
    /\ ~Alive(scheduler_thread)
    /\ cpc' = "idle"
    /\ UNCHANGED <<stop_event, scheduler_thread, tpc, interval, timer, came,
                   cycle, done>>

\* join(timeout=5) returns: five seconds went by with run_update at work
JoinTimeout ==
    /\ cpc = "join"
    /\ tpc[scheduler_thread] = "update"
    /\ cpc' = "idle"
    /\ UNCHANGED <<stop_event, scheduler_thread, tpc, interval, timer, came,
                   cycle, done>>

\* while not self._stop_event.is_set(): the flag is clear, run_update begins
LoopEnter(t) ==
    /\ tpc[t] = "check"
    /\ ~stop_event
    /\ tpc' = [tpc EXCEPT ![t] = "update"]
    /\ UNCHANGED <<stop_event, scheduler_thread, interval, timer, cpc, came,
                   cycle, done>>

\* while not self._stop_event.is_set(): the flag is set, the thread ends
LoopExit(t) ==
    /\ tpc[t] = "check"
    /\ stop_event
    /\ tpc' = [tpc EXCEPT ![t] = "ended"]
    /\ UNCHANGED <<stop_event, scheduler_thread, interval, timer, cpc, came,
                   cycle, done>>

\* run_update returns its summary; the summary is logged and the loop goes
\* back to its condition
UpdateReturns(t) ==
    /\ tpc[t] = "update"
    /\ tpc' = [tpc EXCEPT ![t] = "check"]
    /\ came' = [came EXCEPT ![t] = "cycle"]
    /\ cycle' = [cycle EXCEPT ![t] = "ok"]
    /\ UNCHANGED <<stop_event, scheduler_thread, interval, timer, cpc, done>>

\* Mutant: the exception of a cycle leaves the loop.
UpdateRaises_ends_loop(t) ==
    /\ tpc[t] = "update"
    /\ tpc' = [tpc EXCEPT ![t] = "ended"]
    /\ came' = [came EXCEPT ![t] = "cycle"]
    /\ cycle' = [cycle EXCEPT ![t] = "failed"]
    /\ UNCHANGED <<stop_event, scheduler_thread, interval, timer, cpc, done>>

\* run_update raises: except Exception logs it and calls
\* self._stop_event.wait(interval_seconds)
UpdateRaises(t) ==
    /\ tpc[t] = "update"
    /\ tpc' = [tpc EXCEPT ![t] = "wait"]
    /\ timer' = [timer EXCEPT ![t] = interval[t]]
    /\ came' = [came EXCEPT ![t] = "cycle"]
    /\ cycle' = [cycle EXCEPT ![t] = "failed"]
    /\ UNCHANGED <<stop_event, scheduler_thread, interval, cpc, done>>

\* Mutant: the wait is a sleep, which the flag does not end.
WaitInterrupted_sleeps(t) ==
    /\ tpc[t] = "wait"
    /\ stop_event
    /\ timer[t] = 0
    /\ tpc' = [tpc EXCEPT ![t] = "check"]
    /\ came' = [came EXCEPT ![t] = "wait"]
    /\ UNCHANGED <<stop_event, scheduler_thread, interval, timer, cpc, cycle,
                   done>>

\* Event.wait returns at once when the flag is set, or as soon as it is set
WaitInterrupted(t) ==
    /\ tpc[t] = "wait"
    /\ stop_event
    /\ tpc' = [tpc EXCEPT ![t] = "check"]
    /\ came' = [came EXCEPT ![t] = "wait"]
    /\ UNCHANGED <<stop_event, scheduler_thread, interval, timer, cpc, cycle,
                   done>>

\* Event.wait returns when interval_seconds have gone by
WaitElapsed(t) ==
    /\ tpc[t] = "wait"
    /\ timer[t] = 0
    /\ tpc' = [tpc EXCEPT ![t] = "check"]
    /\ came' = [came EXCEPT ![t] = "wait"]
    /\ UNCHANGED <<stop_event, scheduler_thread, interval, timer, cpc, cycle,
                   done>>

\* a minute goes by for every thread that waits
SchedTick ==
    /\ \E t \in Threads : tpc[t] = "wait" /\ timer[t] > 0
    /\ timer' = [t \in Threads |->
                    IF tpc[t] = "wait" /\ timer[t] > Minute
                    THEN timer[t] - Minute ELSE 0]
    /\ UNCHANGED <<stop_event, scheduler_thread, tpc, interval, cpc, came,
                   cycle, done>>

\* the scheduler is built over files that nobody has written yet
InitSched ==
    /\ NoFiles
    /\ InitRun
    /\ InitCalls
    /\ InitScheduler
    /\ InitFreshness
    /\ InitClients
    /\ InitTrading
    /\ InitOverlap

SchedNext ==
    \/ StartNoop
    \/ \E m \in 0..MaxInterval : StartLaunch(m)
    \/ StopSet
    \/ JoinDone
    \/ JoinTimeout
    \/ \E t \in Threads : LoopEnter(t)
    \/ \E t \in Threads : LoopExit(t)
    \/ \E t \in Threads : UpdateReturns(t)
    \/ \E t \in Threads : UpdateRaises(t)
    \/ \E t \in Threads : WaitInterrupted(t)
    \/ \E t \in Threads : WaitElapsed(t)
    \/ SchedTick

SchedStep ==
    SchedNext /\ UNCHANGED <<storeVars, runVars, ghostVars, callVars, concVars,
                             loadVars, freshVars, moreVars>>

SpecSched == InitSched /\ [][SchedStep]_vars

\* Threads get the processor again and again, run_update comes to an end
\* (its requests have a timeout), join returns when it can.  Nothing is
\* asked of the clock.
SchedFairness ==
    /\ \A t \in Threads :
          /\ WF_vars(LoopEnter(t) /\ SchedStep)
          /\ WF_vars(LoopExit(t) /\ SchedStep)
          /\ WF_vars((UpdateReturns(t) \/ UpdateRaises(t)) /\ SchedStep)
          /\ WF_vars(WaitInterrupted(t) /\ SchedStep)
    /\ WF_vars((JoinDone \/ JoinTimeout) /\ SchedStep)

SpecSchedFair == SpecSched /\ SchedFairness

\* Time goes by as well.
SpecSchedTimed ==
    /\ SpecSchedFair
    /\ WF_vars(SchedTick /\ SchedStep)
    /\ \A t \in Threads : WF_vars(WaitElapsed(t) /\ SchedStep)

\* ------------------------------------------------- scheduler: the claims
\* a step that is a start call
StartStep == done' # done /\ done'.op = "start"

\* C11: at most one loop is alive whatever start and stop calls one caller
\* makes; a start call leaves exactly one loop alive, and a start call made
\* while a loop is alive launches nothing and changes nothing.
C11_AtMostOneLoop ==
    /\ [](Cardinality(AliveLoops) <= 1)
    /\ [][StartStep =>
            /\ Cardinality(AliveLoops') = 1
            /\ done'.running =>
                  /\ ~done'.launched
                  /\ UNCHANGED <<stop_event, scheduler_thread, tpc, interval,
                                 timer, cpc, came, cycle>>]_vars

\* start called twice in succession, the second call with the loop in a cycle
C11_Witness ==
    /\ done.op = "start"
    /\ done.prev = "start"
    /\ done.running
    /\ ~done.launched
    /\ Cardinality(AliveLoops) = 1
    /\ \E t \in Threads : tpc[t] = "update"

\* C12: after a start call that follows a stop call, the stop flag is clear
\* and a loop is alive (so that the loop goes on running cycles), also when
\* the join of that stop call timed out.
C12_StartAfterStopRelaunches ==
    (cpc = "idle" /\ done.op = "start" /\ done.prev = "stop") =>
        /\ ~stop_event
        /\ AliveLoops # {}

\* C13: a loop never begins a cycle straight after the cycle before it; a
\* wait lies between two cycles of a loop, whether the first of them
\* returned or raised.
C13_WaitBetweenCycles ==
    \A t \in Threads : tpc[t] = "update" => came[t] \in {"start", "wait"}

\* C14: once the stop flag is set no loop begins a cycle, a loop leaves its
\* wait without the clock having to advance, every loop alive comes to its
\* end, and the stop call returns.
C14_StopEndsLoop ==
    /\ [][stop_event =>
            \A t \in Threads : tpc'[t] = "update" => tpc[t] = "update"]_vars
    /\ \A t \in Threads : (stop_event /\ tpc[t] = "wait") ~> (tpc[t] # "wait")
    /\ stop_event ~> (AliveLoops = {})
    /\ (cpc = "join") ~> (cpc = "idle")

\* a stop call that found the loop waiting has returned, the loop ended
C14_Witness ==
    /\ done.op = "stop"
    /\ done.running
    /\ cpc = "idle"
    /\ stop_event
    /\ \E t \in Threads : tpc[t] = "ended" /\ came[t] = "wait" /\ timer[t] > 0

\* C15: a cycle that raises leaves its loop alive and waiting for the
\* interval; a loop ends only at its condition with the stop flag set; and
\* the loop that waits after a failed cycle runs another cycle unless the
\* stop flag is set.
C15_FailedCycleKeepsLoop ==
    /\ [][\A t \in Threads :
            /\ (tpc[t] = "update" /\ cycle'[t] = "failed" /\ tpc'[t] # "update")
                  => (tpc'[t] = "wait" /\ timer'[t] = interval[t])
            /\ (Alive(t) /\ tpc'[t] = "ended")
                  => (tpc[t] = "check" /\ stop_event)]_vars
    /\ \A t \in Threads :
          (tpc[t] = "wait" /\ cycle[t] = "failed")
              ~> (tpc[t] = "update" \/ stop_event)

\* a loop in a cycle again after a cycle that raised and a full wait
C15_Witness ==
    \E t \in Threads :
        /\ tpc[t] = "update"
        /\ cycle[t] = "failed"
        /\ came[t] = "wait"
        /\ ~stop_event
        /\ done.op = "start"

\* ================================================================ SpecLoad
\* One caller saving the snapshot and loading the two files, over files that
\* may hold anything when the program finds them.

\* bytes that are not UTF-8 text
Undecodable == [kind |-> "undecodable", val |-> NoDoc]

\* the empty dict {} and the empty list []
EmptyDict == <<>>

EmptyList == <<>>

\* with open(path, 'r', encoding='utf-8') as f: json.load(f)
JsonLoad(content) ==
    CASE content.kind = "json"        -> [error |-> "none", val |-> content.val]
      [] content.kind = "undecodable" -> [error |-> "UnicodeDecodeError",
                                          val |-> NoDoc]
      [] OTHER                        -> [error |-> "JSONDecodeError",
                                          val |-> NoDoc]

\* except (json.JSONDecodeError, IOError)
CaughtByLoad == {"JSONDecodeError", "IOError"}

\* The body shared by the two load methods; empty is what the method returns
\* for a file that is absent or does not parse.
Load(fs, empty) ==
    IF ~FsExists(fs) THEN [raised |-> FALSE, val |-> empty]
    ELSE LET res == JsonLoad(fs.canon)
         IN  IF res.error = "none" THEN [raised |-> FALSE, val |-> res.val]
             ELSE IF res.error \in CaughtByLoad
                  THEN [raised |-> FALSE, val |-> empty]
                  ELSE [raised |-> TRUE, val |-> NoDoc]

\* Mutant: the snapshot is read from the temporary file.
load_current_rates_reads_tmp(fs) ==
    Load([canon |-> fs.tmp, tmp |-> fs.tmp], EmptyDict)

load_current_rates(fs) == Load(fs, EmptyDict)

\* load_historical_records, with the case of the bytes that do not decode
LoadHistoricalRecords(fs) == Load(fs, EmptyList)

Loaded(op, res) ==
    [op |-> op, raised |-> res.raised, val |-> res.val, at |-> calls]

\* storage.load_current_rates()
LoadRates ==
    /\ loaded' = Loaded("load_current_rates", load_current_rates(ratesFs))
    /\ UNCHANGED <<storeVars, runVars, ghostVars, callVars, concVars,
                   schedVars, freshVars, moreVars>>

\* storage.load_historical_records()
LoadHistory ==
    /\ loaded' = Loaded("load_historical_records", LoadHistoricalRecords(histFs))
    /\ UNCHANGED <<storeVars, runVars, ghostVars, callVars, concVars,
                   schedVars, freshVars, moreVars>>

\* what the two files may hold when the program finds them
LoadRatesFiles == InitRatesFiles \cup {Torn, Undecodable}

LoadHistFiles == InitHistFiles \cup {Torn, Undecodable}

InitLoad ==
    /\ ratesFs \in {NewFs(c) : c \in LoadRatesFiles}
    /\ histFs \in {NewFs(c) : c \in LoadHistFiles}
    /\ now = 0
    /\ InitRun
    /\ InitCalls
    /\ InitScheduler
    /\ InitFreshness
    /\ InitClients
    /\ InitTrading
    /\ InitOverlap

LoadNext ==
    \/ \E d \in StoreSnapshots, io \in IoOutcomes : StoreSaveRates(d, io)
    \/ LoadRates
    \/ LoadHistory
    \/ StoreTick

SpecLoad == InitLoad /\ [][LoadNext]_vars

\* ---------------------------------------------- load and save: the claims
\* the last load call was made after the last save call
LoadedLast == loaded.at = calls

SavedRates == last.op = "save_current_rates"

C17_LoadsNeverRaise ==
    /\ loaded.op # "none" => ~loaded.raised
    /\ (loaded.op = "load_current_rates" /\ LoadedLast /\ ~FsParses(ratesFs))
          => loaded.val = EmptyDict
    /\ (loaded.op = "load_historical_records" /\ ~FsParses(histFs))
          => loaded.val = EmptyList

\* C18: a save_current_rates that meets an I/O error, at the temporary file
\* or at os.replace, raises and leaves the canonical snapshot as it was.
C18_FailedSaveKeepsSnapshot ==
    (SavedRates /\ last.io # "ok") =>
        /\ last.raised
        /\ ratesFs.canon = last.before
        /\ load_current_rates(ratesFs) = load_current_rates(NewFs(last.before))

\* os.replace failed over a snapshot with other pairs; the load that follows
\* gives the earlier snapshot
C18_Witness ==
    /\ SavedRates
    /\ last.io = "replace"
    /\ last.raised
    /\ last.before.kind = "json"
    /\ last.before.val # given
    /\ ratesFs.tmp = Json(given)
    /\ loaded.op = "load_current_rates"
    /\ LoadedLast
    /\ loaded.val = last.before.val

\* =============================================================== SpecFresh
\* is_rate_fresh (core/utils.py), applied to what a snapshot may hold under
\* "updated_at" or "last_refresh".  Instants are whole seconds 0..MaxInstant,
\* the RATES_TTL_SECONDS setting is one of 1..MaxTtl.
MaxInstant == 4

MaxTtl == 2

\* A stored value: an ISO string with a UTC offset ("offset") or ending in Z
\* ("zulu"), an ISO string without offset ("naive"), another string ("text"),
\* or a JSON value that is no string ("null", "number").  t is the instant an
\* ISO string names.
Value(shape, t) == [shape |-> shape, t |-> t]

StoredValues ==
    {Value(sh, t) : sh \in {"offset", "zulu", "naive"}, t \in 0..MaxInstant}
      \cup {Value("text", 0), Value("null", 0), Value("number", 0)}

\* datetime.fromisoformat(updated_at.replace('Z', '+00:00'))
FromIso(updated_at) ==
    CASE updated_at.shape \in {"null", "number"} ->
            [error |-> "AttributeError", aware |-> FALSE, t |-> 0]
      [] updated_at.shape = "text" ->
            [error |-> "ValueError", aware |-> FALSE, t |-> 0]
      [] updated_at.shape = "naive" ->
            [error |-> "none", aware |-> FALSE, t |-> updated_at.t]
      [] OTHER ->
            [error |-> "none", aware |-> TRUE, t |-> updated_at.t]

\* except (ValueError, TypeError)
CaughtByFresh == {"ValueError", "TypeError"}

\* datetime.now().astimezone() < expiry_time: an aware datetime is not
\* comparable with a naive one
Before(instant, expiry) ==
    IF expiry.aware THEN [error |-> "none", val |-> instant < expiry.t]
    ELSE [error |-> "TypeError", val |-> FALSE]

Answer(raised, val, instant) ==
    [op |-> "is_rate_fresh", raised |-> raised, val |-> val, at |-> instant]

\* Mutant: a value is still fresh at the instant it expires.
is_rate_fresh_at_expiry(updated_at, ttl_seconds, instant) ==
    LET update_time == FromIso(updated_at)
    IN  IF update_time.error = "none" /\ update_time.aware
        THEN Answer(FALSE, instant <= update_time.t + ttl_seconds, instant)
        ELSE Answer(FALSE, FALSE, instant)

is_rate_fresh(updated_at, ttl_seconds, instant) ==
    LET update_time == FromIso(updated_at)
        expiry_time == [update_time EXCEPT !.t = update_time.t + ttl_seconds]
        error == IF update_time.error # "none" THEN update_time.error
                 ELSE Before(instant, expiry_time).error
    IN  IF error = "none"
        THEN Answer(FALSE, Before(instant, expiry_time).val, instant)
        ELSE IF error \in CaughtByFresh
             THEN Answer(FALSE, FALSE, instant)
             ELSE Answer(TRUE, FALSE, instant)

\* is_rate_fresh(updated_at) is called
IsRateFresh ==
    /\ answer' = is_rate_fresh(stored, ttl, clock)
    /\ UNCHANGED <<stored, ttl, clock>>

\* a second goes by
FreshTick ==
    /\ clock < MaxInstant
    /\ clock' = clock + 1
    /\ UNCHANGED <<stored, ttl, answer>>

\* a stored value and a setting, whatever they are
InitFresh ==
    /\ NoFiles
    /\ InitRun
    /\ InitCalls
    /\ InitScheduler
    /\ stored \in StoredValues
    /\ ttl \in 1..MaxTtl
    /\ clock = 0
    /\ answer = NoAnswer
    /\ InitClients
    /\ InitTrading
    /\ InitOverlap

FreshNext ==
    \/ IsRateFresh
    \/ FreshTick

FreshStep ==
    FreshNext /\ UNCHANGED <<storeVars, runVars, ghostVars, callVars, concVars,
                             loadVars, schedVars, moreVars>>

SpecFresh == InitFresh /\ [][FreshStep]_vars

\* ------------------------------------------------- freshness: the claims
Asked == answer.op = "is_rate_fresh"

\* the stored value is a timestamp as the updater writes it
WellFormed == stored.shape \in {"offset", "zulu"}

\* C19: for a well-formed timestamp is_rate_fresh is true exactly when the
\* instant of the call lies strictly before observed_at + ttl: true for
\* observed_at = now - ttl/2, false for observed_at = now - 2*ttl, false at
\* now = observed_at + ttl.
C19_FreshIffBeforeExpiry ==
    (Asked /\ WellFormed) =>
        /\ ~answer.raised
        /\ answer.val <=> (answer.at < stored.t + ttl)
        /\ (2 * stored.t = 2 * answer.at - ttl) => answer.val
        /\ (stored.t = answer.at - 2 * ttl) => ~answer.val
        /\ (answer.at = stored.t + ttl) => ~answer.val

\* asked at the instant of expiry, one second after an instant still fresh
C19_Witness ==
    /\ Asked
    /\ WellFormed
    /\ stored.t > 0
    /\ answer.at = stored.t + ttl
    /\ ~answer.val
    /\ is_rate_fresh(stored, ttl, answer.at - 1).val

\* C20: is_rate_fresh never raises; for a stored value that is no timestamp
\* (a string of another shape, a value that is no string) it returns False.
C20_FreshNeverRaises ==
    Asked =>
        /\ ~answer.raised
        /\ stored.shape \in {"text", "null", "number"} => ~answer.val

\* ------------------------------------------ run_update: rates and labels
\* a rate n/d is strictly positive
Positive(rate) == rate[1] > 0 /\ rate[2] > 0

\* the records of the history file (none if it is absent or does not parse)
HistoryRecords == load_historical_records(histFs)

\* C22: every rate held in the snapshot and every rate held in a historical
\* record is strictly positive.
C22_RatesPositive ==
    /\ \A p \in SnapshotPairs : Positive(ratesFs.canon.val.pairs[p].rate)
    /\ \A i \in 1..Len(HistoryRecords) : Positive(HistoryRecords[i].rate)

\* ============================================================== SpecClient
\* The two source clients (api_clients.py), each applied to every response
\* its provider may give: quotes for configured codes, for the base currency
\* and for a code that is not configured; raw values that are numbers
\* 0..MaxQuote or strings float() rejects; for the crypto provider also
\* entries without a "usd" field.
MaxQuote == 2

\* a fiat code and a crypto id the configuration does not hold
OTHER_FIAT == "CHF"

OTHER_CRYPTO == "dogecoin"

ClientQuotes(keys, raws) == UNION {[present -> raws] : present \in SUBSET keys}

NumQuotes == {RawNum(n) : n \in 0..MaxQuote}

ClientResponses(source_name) ==
    IF source_name = "coingecko"
    THEN {[key |-> TRUE, status |-> "network", result |-> "", data |-> <<>>]}
         \cup {[key |-> TRUE, status |-> "ok", result |-> "", data |-> d] :
                  d \in ClientQuotes(CryptoKeys \cup {OTHER_CRYPTO},
                                     NumQuotes \cup {RawStr, RawNoUsd})}
    ELSE {[key |-> FALSE, status |-> "ok", result |-> "success", data |-> <<>>],
          [key |-> TRUE, status |-> "network", result |-> "", data |-> <<>>],
          [key |-> TRUE, status |-> "ok", result |-> "error", data |-> <<>>]}
         \cup {[key |-> TRUE, status |-> "ok", result |-> "success", data |-> d] :
                  d \in ClientQuotes(FiatKeys \cup {BASE_CURRENCY, OTHER_FIAT},
                                     NumQuotes \cup {RawStr})}

\* client.fetch_rates() is called and the provider answers resp
FetchFrom(source_name, resp) ==
    /\ got' = [source |-> source_name, resp |-> resp,
               out |-> FetchRates(source_name, resp)]
    /\ UNCHANGED <<storeVars, runVars, ghostVars, callVars, concVars, loadVars,
                   schedVars, freshVars, tradeVars, lostVars>>

InitClient ==
    /\ NoFiles
    /\ InitRun
    /\ InitCalls
    /\ InitScheduler
    /\ InitFreshness
    /\ InitClients
    /\ InitTrading
    /\ InitOverlap

ClientNext ==
    \E source_name \in Range(CLIENT_KEYS) :
        \E resp \in ClientResponses(source_name) : FetchFrom(source_name, resp)

SpecClient == InitClient /\ [][ClientNext]_vars

\* ---------------------------------------------- source clients: the claims
\* the provider answered with a payload the client reads quotes from
Answered ==
    /\ got.source # "none"
    /\ got.resp.key
    /\ got.resp.status = "ok"
    /\ got.source = "exchangerate" => got.resp.result = "success"

\* the configured codes of the source that the payload has an entry for
Quoted ==
    IF got.source = "coingecko"
    THEN {c \in Range(CRYPTO_ID_KEYS) : CRYPTO_ID_MAP[c] \in DOMAIN got.resp.data}
    ELSE {c \in Range(FIAT_CURRENCIES) :
             c \in DOMAIN got.resp.data /\ c # BASE_CURRENCY}

\* the entry of the payload for a configured code
Entry(c) ==
    IF got.source = "coingecko" THEN got.resp.data[CRYPTO_ID_MAP[c]]
    ELSE got.resp.data[c]

\* a raw rate a rate can be made of: a number other than zero
WellFormedEntry(c) == Entry(c).t = "num" /\ Entry(c).v # 0

\* C23: from a successful response whose quotes for the configured codes
\* are numbers other than zero, the fiat client returns exactly the pairs
\* X_USD of the configured fiat codes X that the response holds, the base
\* currency left out, each with rate 1 / raw; USD_USD is never returned.
C23_FiatPairsInverted ==
    (got.source = "exchangerate" /\ Answered) =>
        /\ (\A c \in Quoted : WellFormedEntry(c)) => got.out.kind = "rates"
        /\ got.out.kind = "rates" =>
              /\ DOMAIN got.out.rates = {PairKey(c) : c \in Quoted}
              /\ \A c \in Quoted : got.out.rates[PairKey(c)] = <<1, Entry(c).v>>
              /\ PairKey(BASE_CURRENCY) \notin DOMAIN got.out.rates

\* USD -> EUR quoted 2 next to quotes for USD and for an unconfigured code:
\* the client returns EUR_USD at 1/2 and nothing else
C23_Witness ==
    /\ got.source = "exchangerate"
    /\ Answered
    /\ DOMAIN got.resp.data = {FIAT_CURRENCIES[1], BASE_CURRENCY, OTHER_FIAT}
    /\ got.resp.data[FIAT_CURRENCIES[1]] = RawNum(2)
    /\ got.out.kind = "rates"
    /\ got.out.rates = (PairKey(FIAT_CURRENCIES[1]) :> <<1, 2>>)

\* C24: from a response that holds a malformed entry (a raw rate that is no
\* number, or zero) next to well-formed ones, a client returns the
\* well-formed ones and leaves out only the malformed one.
C24_MalformedEntrySkipped ==
    (Answered /\ \A c \in Quoted : Entry(c).t # "nousd") =>
        /\ got.out.kind = "rates"
        /\ DOMAIN got.out.rates =
              {PairKey(c) : c \in {q \in Quoted : WellFormedEntry(q)}}

\* the entries of this run's log of the sources that ended as updated and
\* returned pair p
Returners(p) ==
    {i \in 1..Len(log) : log[i].result = "ok" /\ p \in DOMAIN log[i].rates}

\* C26: in a snapshot written by run_update every pair is labelled by the
\* membership of its base code in CRYPTO_CURRENCIES, and the label is the
\* name of the client that returned the pair in this run.
C26_LabelNamesSource ==
    (pc = "returned" /\ all_rates # <<>>) =>
        /\ FsParses(ratesFs)
        /\ \A p \in SnapshotPairs :
              LET source == ratesFs.canon.val.pairs[p].source
              IN  /\ source = IF PairBase(p) \in Range(CRYPTO_CURRENCIES)
                              THEN "CoinGecko" ELSE "ExchangeRate-API"
                  /\ Returners(p) # {}
                  /\ \A i \in Returners(p) : ClientName(log[i].name) = source

\* a snapshot written from the pairs of both clients
C26_Witness ==
    /\ pc = "returned"
    /\ FsParses(ratesFs)
    /\ \E p, q \in SnapshotPairs :
          /\ ratesFs.canon.val.pairs[p].source = "CoinGecko"
          /\ ratesFs.canon.val.pairs[q].source = "ExchangeRate-API"
          /\ Returners(p) # {}
          /\ Returners(q) # {}

\* records holds a record of pair p with this rate
Recorded(records, p, rate) ==
    \E i \in 1..Len(records) :
        /\ records[i].from_currency = p[1]
        /\ records[i].to_currency = p[2]
        /\ records[i].rate = rate

\* when the run began, the history held a record for every pair of the
\* snapshot
BackedAtStart ==
    FsParses(startRates) =>
        \A p \in DOMAIN startRates.canon.val.pairs :
            Recorded(startHist, p, startRates.canon.val.pairs[p].rate)

Backed ==
    \A p \in SnapshotPairs :
        Recorded(HistoryRecords, p, ratesFs.canon.val.pairs[p].rate)

MaxAmount == 2

MaxRate == 1

MaxBalance == 3

MaxTradeClock == 2

Units(n) == 100 * n

\* amount * rate
Times(amount, rate) == (amount * rate) \div 100

\* _SUPPORTED_CURRENCIES
SUPPORTED_CURRENCIES ==
    {"USD", "EUR", "GBP", "JPY", "RUB", "CNY", "BTC", "ETH", "SOL", "ADA",
     "DOT"}

\* a code get_currency does not know
UNKNOWN_CODE == "XXX"

\* get_currency(currency_code)
get_currency(currency_code) ==
    IF currency_code \in SUPPORTED_CURRENCIES THEN "none"
    ELSE "CurrencyNotFoundError"

\* The rates get_exchange_rates returns without a snapshot, in hundredths;
\* "JPY": 0.009 and "RUB": 0.01016 are no whole hundredths and are left to
\* the calls that name them, of which there are none here.
DEFAULT_RATES ==
    [c \in {"USD", "EUR", "GBP", "BTC", "ETH", "SOL"} |->
        CASE c = "USD" -> 100
          [] c = "EUR" -> 110
          [] c = "GBP" -> 130
          [] c = "BTC" -> 5933721
          [] c = "ETH" -> 372000
          [] c = "SOL" -> 14512]

\* DatabaseManager.load_rates(): _load_json_file(RATES_FILE, {})
load_rates(fs) == Load(fs, EmptyDict)

\* not rates_data: the parsed document is the empty dict
Empty(rates_data) == DOMAIN rates_data = {}

\* get_exchange_rates(): the rate of each pair under the code before "_",
\* and "USD": 1.0
get_exchange_rates(fs) ==
    LET rates_data == load_rates(fs).val
    IN  IF Empty(rates_data) \/ "pairs" \notin DOMAIN rates_data
        THEN DEFAULT_RATES
        ELSE [c \in {p[1] : p \in DOMAIN rates_data.pairs} \cup {"USD"} |->
                 IF c = "USD" THEN Units(1)
                 ELSE rates_data.pairs[PairKey(c)].rate]

\* a value Python takes as true in "if last_refresh and ...": None is not
Truthy(value) == value.shape # "null"

\* The check of buy_currency and sell_currency before they trust the rates:
\*   rates_data = self.database.load_rates()
\*   if rates_data and 'last_refresh' in rates_data:
\*       last_refresh = rates_data.get('last_refresh')
\*       if last_refresh and not is_rate_fresh(last_refresh): raise ...
\* The result is the exception that leaves the check, if any.
StaleCheck(fs, ttl_seconds, instant) ==
    LET rates_data == load_rates(fs).val
    IN  IF ~Empty(rates_data) /\ "last_refresh" \in DOMAIN rates_data
        THEN LET last_refresh == rates_data.last_refresh
                 fresh == is_rate_fresh(last_refresh, ttl_seconds, instant)
             IN  IF ~Truthy(last_refresh) THEN "none"
                 ELSE IF fresh.raised THEN "AttributeError"
                 ELSE IF ~fresh.val THEN "ApiRequestError"
                 ELSE "none"
        ELSE "none"

\* validate_amount(amount)
validate_amount(amount) ==
    IF amount.t # "num" THEN [error |-> "TypeError", val |-> 0]
    ELSE IF amount.v <= 0 THEN [error |-> "ValueError", val |-> 0]
    ELSE [error |-> "none", val |-> amount.v]

\* ------------------------------------------------------------------ Wallet
\* Wallet(currency_code, balance): the balance setter
Wallet(balance) ==
    IF balance < 0 THEN [error |-> "ValueError", balance |-> 0]
    ELSE [error |-> "none", balance |-> balance]

\* Wallet.deposit(amount) on a wallet holding balance
WalletDeposit(balance, amount) ==
    IF amount <= 0 THEN [error |-> "ValueError", balance |-> balance]
    ELSE [error |-> "none", balance |-> balance + amount]

\* Mutant: withdraw without the comparison with the balance.
WalletWithdraw_unchecked(balance, amount) ==
    IF amount <= 0 THEN [error |-> "ValueError", balance |-> balance]
    ELSE [error |-> "none", balance |-> balance - amount]

\* Wallet.withdraw(amount) on a wallet holding balance
WalletWithdraw(balance, amount) ==
    IF amount <= 0 THEN [error |-> "ValueError", balance |-> balance]
    ELSE IF amount > balance
         THEN [error |-> "InsufficientFundsError", balance |-> balance]
         ELSE [error |-> "none", balance |-> balance - amount]

\* ------------------------------------------------------- PortfolioManager
\* _get_user_portfolio_data(): the user's portfolio; a user without one gets
\* an empty portfolio, which is saved at once
get_user_portfolio_data(saved) == [exists |-> TRUE, wallets |-> saved.wallets]

\* portfolio_data['wallets'][code]['balance'], 0.0 without such a wallet
Balance(wallets, code) == IF code \in DOMAIN wallets THEN wallets[code] ELSE 0

\* portfolio_data['wallets'][code] = {'balance': balance}
Put(wallets, code, balance) ==
    [c \in DOMAIN wallets \cup {code} |->
        IF c = code THEN balance ELSE wallets[c]]

\* The call raised error; saved is what data/portfolios.json holds then.
Rejected(error, saved) ==
    [error |-> error, saved |-> saved, rate |-> 0]

\* The call came to _save_portfolio_data(portfolio_data) and returned.
Completed(wallets, rate) ==
    [error |-> "none", saved |-> [exists |-> TRUE, wallets |-> wallets],
     rate |-> rate]

\* deposit_usd(amount)
deposit_usd(logged_in, saved, amount) ==
    LET valid == validate_amount(amount)
        portfolio_data == get_user_portfolio_data(saved)
        wallets == portfolio_data.wallets
        usd_wallet ==
            IF "USD" \in DOMAIN wallets
            THEN WalletDeposit(wallets["USD"], valid.val)
            ELSE Wallet(valid.val)
    IN  IF ~logged_in THEN Rejected("ValueError", saved)
        ELSE IF valid.error # "none" THEN Rejected(valid.error, saved)
        ELSE IF usd_wallet.error # "none"
             THEN Rejected(usd_wallet.error, portfolio_data)
        ELSE Completed(Put(wallets, "USD", usd_wallet.balance), 0)

\* buy_currency(currency_code, amount), called when the clock reads instant
buy_currency(logged_in, saved, fs, ttl_seconds, instant, currency_code, amount) ==
    LET portfolio_data == get_user_portfolio_data(saved)
        wallets == portfolio_data.wallets
        exchange_rates == get_exchange_rates(fs)
        stale == StaleCheck(fs, ttl_seconds, instant)
        valid == validate_amount(amount)
        rate == exchange_rates[currency_code]
        cost_usd == Times(valid.val, rate)
        old_usd_balance == Balance(wallets, "USD")
        currency_wallet == Wallet(Balance(wallets, currency_code))
        usd_wallet ==
            IF "USD" \in DOMAIN wallets
            THEN WalletWithdraw(old_usd_balance, cost_usd)
            ELSE Wallet(-cost_usd)
        paid == Put(wallets, "USD", usd_wallet.balance)
        bought == WalletDeposit(currency_wallet.balance, valid.val)
    IN  IF ~logged_in THEN Rejected("ValueError", saved)
        ELSE IF get_currency(currency_code) # "none"
             THEN Rejected(get_currency(currency_code), saved)
        ELSE IF stale # "none" THEN Rejected(stale, portfolio_data)
        ELSE IF currency_code \notin DOMAIN exchange_rates
             THEN Rejected("ApiRequestError", portfolio_data)
        ELSE IF valid.error # "none" THEN Rejected(valid.error, portfolio_data)
        ELSE IF old_usd_balance < cost_usd
             THEN Rejected("InsufficientFundsError", portfolio_data)
        ELSE IF usd_wallet.error # "none"
             THEN Rejected(usd_wallet.error, portfolio_data)
        ELSE IF bought.error # "none"
             THEN Rejected(bought.error, portfolio_data)
        ELSE Completed(Put(paid, currency_code, bought.balance), rate)

\* Mutant: the wallet sold from is saved before the USD wallet is credited.
sell_currency_saves_early(logged_in, saved, fs, ttl_seconds, instant, currency_code, amount) ==
    LET portfolio_data == get_user_portfolio_data(saved)
        wallets == portfolio_data.wallets
        valid == validate_amount(amount)
        old_currency_balance == Balance(wallets, currency_code)
        stale == StaleCheck(fs, ttl_seconds, instant)
        exchange_rates == get_exchange_rates(fs)
        rate == exchange_rates[currency_code]
        revenue_usd == Times(valid.val, rate)
        sold == WalletWithdraw(old_currency_balance, valid.val)
        earned == WalletDeposit(Balance(wallets, "USD"), revenue_usd)
        given_away == Put(wallets, currency_code, sold.balance)
    IN  IF ~logged_in THEN Rejected("ValueError", saved)
        ELSE IF get_currency(currency_code) # "none"
             THEN Rejected(get_currency(currency_code), saved)
        ELSE IF currency_code \notin DOMAIN wallets
             THEN Rejected("ValueError", portfolio_data)
        ELSE IF valid.error # "none" THEN Rejected(valid.error, portfolio_data)
        ELSE IF old_currency_balance < valid.val
             THEN Rejected("InsufficientFundsError", portfolio_data)
        ELSE IF stale # "none" THEN Rejected(stale, portfolio_data)
        ELSE IF currency_code \notin DOMAIN exchange_rates
             THEN Rejected("ApiRequestError", portfolio_data)
        ELSE IF sold.error # "none" THEN Rejected(sold.error, portfolio_data)
        ELSE IF earned.error # "none"
             THEN Rejected(earned.error,
                           [exists |-> TRUE, wallets |-> given_away])
        ELSE Completed(Put(given_away, "USD", earned.balance), rate)

\* sell_currency(currency_code, amount), called when the clock reads instant
sell_currency(logged_in, saved, fs, ttl_seconds, instant, currency_code, amount) ==
    LET portfolio_data == get_user_portfolio_data(saved)
        wallets == portfolio_data.wallets
        valid == validate_amount(amount)
        old_currency_balance == Balance(wallets, currency_code)
        stale == StaleCheck(fs, ttl_seconds, instant)
        exchange_rates == get_exchange_rates(fs)
        rate == exchange_rates[currency_code]
        revenue_usd == Times(valid.val, rate)
        sold == WalletWithdraw(old_currency_balance, valid.val)
        earned == WalletDeposit(Balance(wallets, "USD"), revenue_usd)
        given_away == Put(wallets, currency_code, sold.balance)
    IN  IF ~logged_in THEN Rejected("ValueError", saved)
        ELSE IF get_currency(currency_code) # "none"
             THEN Rejected(get_currency(currency_code), saved)
        ELSE IF currency_code \notin DOMAIN wallets
             THEN Rejected("ValueError", portfolio_data)
        ELSE IF valid.error # "none" THEN Rejected(valid.error, portfolio_data)
        ELSE IF old_currency_balance < valid.val
             THEN Rejected("InsufficientFundsError", portfolio_data)
        ELSE IF stale # "none" THEN Rejected(stale, portfolio_data)
        ELSE IF currency_code \notin DOMAIN exchange_rates
             THEN Rejected("ApiRequestError", portfolio_data)
        ELSE IF sold.error # "none" THEN Rejected(sold.error, portfolio_data)
        ELSE IF earned.error # "none"
             THEN Rejected(earned.error, portfolio_data)
        ELSE Completed(Put(given_away, "USD", earned.balance), rate)

\* ------------------------------------------------- SpecTrade: the calls
\* the rates a snapshot may hold for a currency: float(raw) for any number
\* the provider sent
TradeRates == {Units(r) : r \in -1..MaxRate}

\* rates_data['pairs'] of the snapshots traded on: no pair, or "EUR_USD"
TradePairs ==
    {<<>>} \cup
    {[p \in {PairKey("EUR")} |->
         [rate |-> r, updated_at |-> Value("zulu", 0),
          source |-> "ExchangeRate-API"]] : r \in TradeRates}

\* what a snapshot may hold under "last_refresh"
LastRefreshValues ==
    {Value(sh, 0) : sh \in {"zulu", "naive", "text", "null", "number"}}

\* data/rates.json: absent, not JSON, or a JSON object with or without
\* "pairs" and with or without "last_refresh"
TradeFiles ==
    {Absent, Corrupt, Json(EmptyDict)}
      \cup {Json([pairs |-> ps, last_refresh |-> lr]) :
               ps \in TradePairs, lr \in LastRefreshValues}
      \cup {Json([pairs |-> ps]) : ps \in TradePairs}
      \cup {Json([last_refresh |-> lr]) : lr \in LastRefreshValues}

\* the amounts of the calls: zero, whole units, and a value that is no number
TradeAmounts == {RawNum(Units(a)) : a \in 0..MaxAmount} \cup {RawStr}

TradeCodes == {"USD", "EUR", UNKNOWN_CODE}

\* no wallet holds more than MaxBalance units
Within(saved) ==
    \A c \in DOMAIN saved.wallets : saved.wallets[c] <= Units(MaxBalance)

TradeRecord(op, code, amount, res, left) ==
    [op |-> op, code |-> code, amount |-> amount, error |-> res.error,
     rate |-> res.rate, left |-> left, before |-> portfolios, at |-> clock]

\* what the portfolio calls leave alone
tradeFrame ==
    <<storeVars, runVars, ghostVars, callVars, concVars, loadVars, schedVars,
      freshVars, clientVars, lostVars, current_user>>

\* In each call data/portfolios.json becomes what the call saved.
DepositUsd(amount) ==
    LET res == deposit_usd(current_user, portfolios, amount)
    IN  /\ Within(res.saved)
        /\ portfolios' = res.saved
        /\ trade' = TradeRecord("deposit_usd", "USD", amount, res, 0)
        /\ UNCHANGED tradeFrame

BuyCurrency(currency_code, amount) ==
    LET res == buy_currency(current_user, portfolios, ratesFs, ttl, clock,
                            currency_code, amount)
    IN  /\ Within(res.saved)
        /\ portfolios' = res.saved
        /\ trade' = TradeRecord("buy_currency", currency_code, amount, res, 0)
        /\ UNCHANGED tradeFrame

SellCurrency(currency_code, amount) ==
    LET res == sell_currency(current_user, portfolios, ratesFs, ttl, clock,
                             currency_code, amount)
    IN  /\ Within(res.saved)
        /\ portfolios' = res.saved
        /\ trade' = TradeRecord("sell_currency", currency_code, amount, res, 0)
        /\ UNCHANGED tradeFrame

\* Wallet(code, balance).withdraw(amount) on a wallet of the portfolio; the
\* wallet object is not saved
Withdraw(currency_code, amount) ==
    /\ currency_code \in DOMAIN portfolios.wallets
    /\ amount.t = "num"
    /\ LET res == WalletWithdraw(portfolios.wallets[currency_code], amount.v)
       IN  trade' = TradeRecord("withdraw", currency_code, amount,
                                Rejected(res.error, portfolios), res.balance)
    /\ UNCHANGED <<tradeFrame, portfolios>>

\* a second goes by
TradeTick ==
    /\ clock < MaxTradeClock
    /\ clock' = clock + 1
    /\ UNCHANGED <<storeVars, runVars, ghostVars, callVars, concVars, loadVars,
                   schedVars, stored, ttl, answer, clientVars, tradeVars,
                   lostVars>>

\* any snapshot, a user logged in or not, no portfolio yet
InitTrade ==
    /\ ratesFs \in {NewFs(c) : c \in TradeFiles}
    /\ histFs = NewFs(Absent)
    /\ now = 0
    /\ InitRun
    /\ InitCalls
    /\ InitScheduler
    /\ stored = NoValue
    /\ ttl \in 1..MaxTtl
    /\ clock = 0
    /\ answer = NoAnswer
    /\ InitClients
    /\ current_user \in BOOLEAN
    /\ portfolios = NoPortfolio
    /\ trade = NoTrade
    /\ InitOverlap

TradeNext ==
    \/ \E amount \in TradeAmounts : DepositUsd(amount)
    \/ \E currency_code \in TradeCodes, amount \in TradeAmounts :
          BuyCurrency(currency_code, amount)
    \/ \E currency_code \in TradeCodes, amount \in TradeAmounts :
          SellCurrency(currency_code, amount)
    \/ \E currency_code \in TradeCodes, amount \in TradeAmounts :
          Withdraw(currency_code, amount)
    \/ TradeTick

SpecTrade == InitTrade /\ [][TradeNext]_vars

\* ------------------------------------------------- portfolio: the claims
\* the last call was a buy or a sell
WasTrade == trade.op \in {"buy_currency", "sell_currency"}

\* The rate table is fresh at instant: the snapshot parses, holds a
\* "last_refresh" that is a timestamp as the updater writes it, and the
\* instant lies before last_refresh + ttl.
TableFreshAt(fs, ttl_seconds, instant) ==
    /\ FsParses(fs)
    /\ "last_refresh" \in DOMAIN fs.canon.val
    /\ fs.canon.val.last_refresh.shape \in {"offset", "zulu"}
    /\ instant < fs.canon.val.last_refresh.t + ttl_seconds

\* C21: a buy or a sell completes only when the rate table is fresh at the
\* instant of the call; it does not complete when the snapshot file is
\* missing, holds no last_refresh, or holds one that is no timestamp.
C21_TradesOnFreshRates ==
    (WasTrade /\ trade.error = "none") => TableFreshAt(ratesFs, ttl, trade.at)

SameBalances(wallets, others) ==
    /\ DOMAIN wallets = DOMAIN others
    /\ \A c \in DOMAIN wallets : wallets[c] = others[c]

\* the USD worth of the USD wallet and of the wallet of code, at rate
Worth(wallets, code, rate) ==
    Balance(wallets, "USD")
      + (IF code = "USD" THEN 0 ELSE Times(Balance(wallets, code), rate))

\* what the wallet of code gained in the last call
Gain(code) ==
    Balance(portfolios.wallets, code) - Balance(trade.before.wallets, code)

\* C28: a completed buy or sell of any supported code, USD included, moves
\* the traded wallet by the amount and the USD wallet by amount * rate the
\* other way, so that the worth of the portfolio at the trade rate is what
\* it was.
C28_TradeConservesValue ==
    (WasTrade /\ trade.error = "none") =>
        /\ Worth(portfolios.wallets, trade.code, trade.rate)
              = Worth(trade.before.wallets, trade.code, trade.rate)
        /\ trade.code # "USD" =>
              IF trade.op = "buy_currency"
              THEN /\ Gain(trade.code) = trade.amount.v
                   /\ Gain("USD") = -Times(trade.amount.v, trade.rate)
              ELSE /\ Gain(trade.code) = -trade.amount.v
                   /\ Gain("USD") = Times(trade.amount.v, trade.rate)

\* C29: a buy or a sell that raised, whatever the reason, leaves every
\* balance of data/portfolios.json as it was before the call.
C29_RejectedTradeChangesNothing ==
    (WasTrade /\ trade.error # "none") =>
        SameBalances(portfolios.wallets, trade.before.wallets)

\* a sell that passed every check and raised when the USD wallet was
\* credited, after the withdrawal from the wallet sold from
C29_Witness ==
    /\ trade.op = "sell_currency"
    /\ trade.error = "ValueError"
    /\ current_user
    /\ trade.code \in DOMAIN trade.before.wallets
    /\ validate_amount(trade.amount).error = "none"
    /\ trade.amount.v <= trade.before.wallets[trade.code]
    /\ SameBalances(portfolios.wallets, trade.before.wallets)

\* the last call asked for more than the wallet of its code held
Overdraw ==
    /\ trade.code \in DOMAIN trade.before.wallets
    /\ trade.amount.t = "num"
    /\ trade.amount.v > trade.before.wallets[trade.code]

\* C30: every balance of data/portfolios.json is non-negative after any
\* sequence of deposits, buys and sells; Wallet.withdraw of more than the
\* balance raises InsufficientFundsError and leaves the balance, and so does
\* a sell of more than the wallet holds; a buy that completed cost no more
\* than the USD wallet held.
C30_BalancesNeverNegative ==
    /\ \A c \in DOMAIN portfolios.wallets : portfolios.wallets[c] >= 0
    /\ (trade.op = "withdraw" /\ Overdraw) =>
          /\ trade.error = "InsufficientFundsError"
          /\ trade.left = trade.before.wallets[trade.code]
    /\ (trade.op = "withdraw" /\ trade.error = "none") => trade.left >= 0
    /\ (trade.op = "sell_currency" /\ current_user /\ Overdraw) =>
          /\ trade.error = "InsufficientFundsError"
          /\ SameBalances(portfolios.wallets, trade.before.wallets)
    /\ (trade.op = "buy_currency" /\ trade.error = "none") =>
          Times(trade.amount.v, trade.rate)
              <= Balance(trade.before.wallets, "USD")

\* a withdrawal of more than a wallet with money in it holds was refused
C30_Witness ==
    /\ trade.op = "withdraw"
    /\ Overdraw
    /\ trade.before.wallets[trade.code] > 0
    /\ trade.error = "InsufficientFundsError"
    /\ \E c \in DOMAIN portfolios.wallets \ {"USD"} : portfolios.wallets[c] > 0

\* ------------------------------------------- concurrent history: the claim
\* the records a reader of data/exchange_rates.json gets
HistoryNow == load_historical_records(histFs)

\* C25: save_historical_record reads, appends and replaces without a lock.
\* As long as no two such calls were under way at once the history is what
\* it was at the start followed by every record whose save returned; once
\* two calls overlap that need not hold: the witness is a lost update.
C25_LostOnlyWhenOverlapped ==
    ~overlapped => HistoryNow = startHist \o appended

\* lost update: both saves returned, the file parses and holds the record of
\* the save that returned last, the record of the other save is gone
C25_Witness ==
    /\ overlapped
    /\ \A w \in Writers : wpc[w] = "idle"
    /\ Len(appended) = 2
    /\ appended[1] # appended[2]
    /\ FsParses(histFs)
    /\ HistoryNow = Append(startHist, appended[2])
    /\ appended[1] \notin Range(HistoryNow)

====
